---------------------------- MODULE Spec2Model ----------------------------
(***************************************************************************)
(* A model of the request-log views of cc-switch:                          *)
(*   - LogsDashboard (time range, refresh controls, rolling window),       *)
(*   - LogList (URL-initialised filters, paging, fetch effect, bulk        *)
(*     delete dialog),                                                     *)
(*   - LogDetail and the list row (derived metrics of one record),         *)
(*   - the query hooks' window helpers.                                    *)
(* Optional JavaScript values (T | undefined) are sequences of length at   *)
(* most one: <<>> is undefined/null, <<v>> is the value v.                 *)
(***************************************************************************)
EXTENDS Integers, Sequences, FiniteSets, TLC

VARIABLES
    shownLog,       \* the RequestLog a list row / the detail view renders
    rowCells,       \* what the LogList row shows for shownLog
    detailCells,    \* what LogDetail shows for shownLog
    now,            \* the wall clock, Date.now(), in ticks (TicksPerSec per second)
    resolved,       \* the window the query hooks' helpers resolved last
    hookCall,       \* the last call a query hook made: its arguments and what it sent
    detailQuery,    \* the useRequestDetail query LogDetail observes, if any
    probe,          \* a caller that reads the backend directly: its calls and results
    queryCache,     \* the usage queries other components left in the query cache
    loaded,         \* whether the page has been loaded (the components mounted)
    hosted,         \* LogList is rendered by LogsDashboard (else alone, without props)
    url,            \* window.location.search, as its parameters
    dash,           \* the state of LogsDashboard
    list,           \* the state of the mounted LogList
    filters,        \* the useAvailableFilters query LogList observes
    fetches,        \* getRequestLogs calls in flight
    liveGen,        \* the fetch effect run whose `cancelled` flag is still false
    nextGen,        \* the number of fetch effect runs so far, plus one
    countCall,      \* the countRequestLogsByDate call in flight, if any
    deleteCall,     \* the deleteRequestLogsByDate call in flight, if any
    pendingRefresh, \* the setTimeout(..., 0) of the delete onSuccess, if pending
    store,          \* the backend's record store
    toast,          \* the last toast shown
    hist            \* history of the run, read by the properties only

detailVars == <<shownLog, rowCells, detailCells>>
hookVars == <<resolved, hookCall, detailQuery, probe, queryCache>>
uiVars == <<loaded, hosted, url, dash, list, filters, fetches, liveGen, nextGen,
            countCall, deleteCall, pendingRefresh, store, toast, hist>>

vars == <<shownLog, rowCells, detailCells, now, resolved, hookCall, detailQuery,
         probe, queryCache, loaded, hosted, url, dash,
          list, filters, fetches, liveGen, nextGen, countCall, deleteCall,
          pendingRefresh, store, toast, hist>>

None == <<>>
Some(v) == <<v>>
IsSome(o) == Len(o) = 1
Val(o) == o[1]

(***************************************************************************)
(* JavaScript truthiness of an optional number: undefined and 0 are falsy. *)
(***************************************************************************)
TruthyNum(o) == IsSome(o) /\ Val(o) # 0

(***************************************************************************)
(* Number.prototype.toFixed(digits) of the quotient num/den (den > 0,      *)
(* num >= 0): the decimal string with `digits` decimals, kept as the       *)
(* integer it spells when the point is dropped ("55.56" is 5556), rounded  *)
(* to nearest.  The result is a string, so it is never empty.              *)
(***************************************************************************)
Pow10(d) == IF d = 0 THEN 1 ELSE IF d = 1 THEN 10 ELSE 100

ToFixed(num, den, digits) ==
    [scaled |-> (2 * num * Pow10(digits) + den) \div (2 * den), digits |-> digits]

(***************************************************************************)
(* Truthiness of string | null: null is falsy, a toFixed string is         *)
(* non-empty and therefore truthy, "0.0" included.                         *)
(***************************************************************************)
TruthyStr(o) == IsSome(o)

(*************************** JavaScript values *****************************)

\* A JavaScript number that may be NaN: <<>> is NaN, <<n>> is the integer n.
NaN == <<>>
Num(n) == <<n>>
IsNum(x) == Len(x) = 1

\* A string that is parsed or printed is a sequence of one-character strings.
DigitChars == <<"0", "1", "2", "3", "4", "5", "6", "7", "8", "9">>
IsDigit(c) == \E i \in 1 .. 10 : DigitChars[i] = c
DigitVal(c) == (CHOOSE i \in 1 .. 10 : DigitChars[i] = c) - 1
IsSpace(c) == c = " "

RECURSIVE SkipSpaces(_, _)
SkipSpaces(s, i) ==
    IF i <= Len(s) /\ IsSpace(s[i]) THEN SkipSpaces(s, i + 1) ELSE i

\* the value of the longest run of digits of s from position i on (acc so
\* far, seen: whether a digit was read); NaN when there is no digit
RECURSIVE ParseDigits(_, _, _, _)
ParseDigits(s, i, acc, seen) ==
    IF i <= Len(s) /\ IsDigit(s[i])
    THEN ParseDigits(s, i + 1, acc * 10 + DigitVal(s[i]), TRUE)
    ELSE IF seen THEN Num(acc) ELSE NaN

\* parseInt(s, 10): leading blanks, an optional sign, then decimal digits up
\* to the first other character; NaN when no digit follows the sign.
ParseInt(s) ==
    LET i == SkipSpaces(s, 1)
        neg == i <= Len(s) /\ s[i] = "-"
        j == IF i <= Len(s) /\ (s[i] = "-" \/ s[i] = "+") THEN i + 1 ELSE i
        m == ParseDigits(s, j, 0, FALSE)
    IN  IF IsNum(m) /\ neg THEN Num(0 - Val(m)) ELSE m

RECURSIVE NatToChars(_)
NatToChars(n) ==
    IF n < 10 THEN <<DigitChars[n + 1]>>
    ELSE NatToChars(n \div 10) \o <<DigitChars[(n % 10) + 1]>>

\* Number.prototype.toString() of an integer or NaN
NumToString(x) ==
    IF ~IsNum(x) THEN <<"N", "a", "N">>
    ELSE IF Val(x) < 0 THEN <<"-">> \o NatToChars(0 - Val(x))
    ELSE NatToChars(Val(x))

\* `value || fallback` over string | null: null and "" are falsy
OrElse(o, fallback) == IF IsSome(o) /\ Val(o) # "" THEN Val(o) ELSE fallback

\* the same over a string kept as a sequence of characters
OrElseChars(o, fallback) == IF IsSome(o) /\ Val(o) # <<>> THEN Val(o) ELSE fallback

(*************************** the clock *************************************)

\* The clock is counted in ticks of 1/TicksPerSec second, so that
\* Math.floor(Date.now() / 1000) is a real floor and two reads of the clock
\* inside one second boundary or across it are both possible.
TicksPerSec == 2

\* the most ticks the clock advances between two statements of one handler
MaxDrift == 1

\* the most ticks the clock advances in the model
MaxElapsed == 2

DaySec == 24 * 60 * 60

\* The model starts 100 days after the epoch, one tick before a second ends.
StartTick == 100 * DaySec * TicksPerSec + (TicksPerSec - 1)

\* Math.floor(Date.now() / 1000)
NowSec(t) == t \div TicksPerSec

\* the clock readings a later statement of the same handler can see
LaterReads(t) == {u \in t .. t + MaxDrift : u <= StartTick + MaxElapsed}

\* time passes
ClockTick ==
    /\ now < StartTick + MaxElapsed
    /\ now' = now + 1

(*************************** windows ***************************************)

TimeRanges == {"5m", "15m", "30m", "1h", "5h", "12h", "1d", "7d", "30d"}

\* LogsDashboard.tsx 100-123
GetTimeRangeSeconds(range) ==
    CASE range = "5m"  -> 5 * 60
      [] range = "15m" -> 15 * 60
      [] range = "30m" -> 30 * 60
      [] range = "1h"  -> 60 * 60
      [] range = "5h"  -> 5 * 60 * 60
      [] range = "12h" -> 12 * 60 * 60
      [] range = "1d"  -> 24 * 60 * 60
      [] range = "7d"  -> 7 * 24 * 60 * 60
      [] range = "30d" -> 30 * 24 * 60 * 60
      [] OTHER         -> 5 * 60

\* LogsDashboard.tsx 126-132: the memo body reads the clock twice, t1 for
\* startDate and then t2 for endDate.
TimeRangeParams(range, t1, t2) ==
    [startDate |-> NowSec(t1) - GetTimeRangeSeconds(range), endDate |-> NowSec(t2)]

\* LogList.tsx 133-137: one read of the clock
ListRollingRange(windowSeconds, t) ==
    LET endDate == NowSec(t)
    IN  [startDate |-> endDate - windowSeconds, endDate |-> endDate]

\* lib/query/usage.ts getRollingRange: one read of the clock
HookRollingRange(windowSeconds, t) ==
    LET endDate == NowSec(t)
    IN  [startDate |-> endDate - windowSeconds, endDate |-> endDate]

\* lib/query/usage.ts getWindow: one read of the clock
GetWindow(days, t) ==
    LET endDate == NowSec(t)
    IN  [startDate |-> endDate - days * 24 * 60 * 60, endDate |-> endDate]

(*************************** the backend ***********************************)
(* The engine behind usageApi is not part of these files; it is modelled   *)
(* from the contract of the specification: conjunction of the supplied     *)
(* filters, an inclusive [startDate, endDate] window on createdAt,         *)
(* descending createdAt order with ties broken by requestId, the page      *)
(* slice and the total.                                                    *)
(***************************************************************************)

StartSec == NowSec(StartTick)

\* The records of the store when the page is loaded: one just inside each
\* side of the one-day retention boundary, one recent, one older than every
\* retention option.
InitialStore ==
    {[requestId |-> 1, createdAt |-> StartSec - 91 * DaySec, providerId |-> "p1",
      model |-> "m1", providerType |-> "claude", statusCode |-> 200],
     [requestId |-> 2, createdAt |-> StartSec - DaySec, providerId |-> "p1",
      model |-> "m2", providerType |-> "codex", statusCode |-> 500],
     [requestId |-> 3, createdAt |-> StartSec - DaySec + 1, providerId |-> "p2",
      model |-> "m1", providerType |-> "claude", statusCode |-> 200],
     [requestId |-> 4, createdAt |-> StartSec - 60, providerId |-> "p2",
      model |-> "m2", providerType |-> "gemini", statusCode |-> 404]}

InWindow(r, startDate, endDate) == startDate <= r.createdAt /\ r.createdAt <= endDate

\* a request the engine can serve: zero-based page, positive pageSize, a
\* known status filter and a well-formed window
ValidRequest(req) ==
    /\ IsNum(req.page) /\ Val(req.page) >= 0
    /\ IsNum(req.pageSize) /\ Val(req.pageSize) >= 1
    /\ req.statusFilter \in {None, Some("success"), Some("error")}
    /\ req.startDate <= req.endDate

Matches(r, req) ==
    /\ IsSome(req.providerId) => r.providerId = Val(req.providerId)
    /\ IsSome(req.model) => r.model = Val(req.model)
    /\ IsSome(req.providerType) => r.providerType = Val(req.providerType)
    /\ req.statusFilter = Some("success") => (r.statusCode >= 200 /\ r.statusCode < 300)
    /\ req.statusFilter = Some("error") => ~(r.statusCode >= 200 /\ r.statusCode < 300)
    /\ InWindow(r, req.startDate, req.endDate)

\* r comes before q in the listing
Before(r, q) ==
    \/ r.createdAt > q.createdAt
    \/ r.createdAt = q.createdAt /\ r.requestId < q.requestId

RECURSIVE Ordered(_)
Ordered(rs) ==
    IF rs = {} THEN <<>>
    ELSE LET first == CHOOSE r \in rs : \A q \in rs \ {r} : Before(r, q)
         IN  <<first.requestId>> \o Ordered(rs \ {first})

\* getRequestLogs: the requestIds of the page slice and the total
GetRequestLogs(st, req) ==
    LET all == Ordered({r \in st : Matches(r, req)})
        lo == Val(req.page) * Val(req.pageSize) + 1
        hi == (Val(req.page) + 1) * Val(req.pageSize)
    IN  [data |-> SubSeq(all, lo, IF hi < Len(all) THEN hi ELSE Len(all)),
         total |-> Len(all),
         req |-> req]

\* countRequestLogsByDate
CountByDate(st, range) ==
    Cardinality({r \in st : InWindow(r, range.startDate, range.endDate)})

\* deleteRequestLogsByDate: the store without the records of the range
DeleteByDate(st, range) ==
    {r \in st : ~InWindow(r, range.startDate, range.endDate)}

\* getAvailableFilters: the providers and models seen in the window (all
\* records when the window is not given)
AvailableFilters(st, key) ==
    LET seen == {r \in st : (IsSome(key.startDate) => r.createdAt >= Val(key.startDate))
                         /\ (IsSome(key.endDate) => r.createdAt <= Val(key.endDate))}
    IN  [providers |-> {r.providerId : r \in seen}, models |-> {r.model : r \in seen}]

(*************************** the URL ***************************************)

NoParams ==
    [timeRange |-> None, provider |-> None, model |-> None, protocol |-> None,
     status |-> None, page |-> None, pageSize |-> None]

\* The query strings the page is loaded with: none, values the views write
\* themselves, and values typed by hand.
UrlCases ==
    {NoParams,
     [NoParams EXCEPT !.timeRange = Some("1h"), !.page = Some(<<"2">>),
                      !.pageSize = Some(<<"2">>)],
     [NoParams EXCEPT !.status = Some("error"), !.provider = Some("p1"),
                      !.protocol = Some("claude")],
     [NoParams EXCEPT !.timeRange = Some("10m"), !.status = Some("foo")],
     [NoParams EXCEPT !.page = Some(<<"-", "1">>), !.pageSize = Some(<<"1", "0", "0", "0">>)],
     [NoParams EXCEPT !.page = Some(<<"a", "b", "c">>), !.pageSize = Some(<<"0">>)],
     [NoParams EXCEPT !.model = Some("m1"), !.pageSize = Some(<<"x">>)]}

(*************************** query keys ************************************)
(* A query key is an array of strings, numbers and undefined; its elements *)
(* are tagged so that keys of every shape can be compared.                 *)
(***************************************************************************)

KeyStr(s) == <<"string", s>>
KeyNum(n) == <<"number", n>>
KeyUndefined == <<"undefined">>

\* an optional number as a key element
KeyOpt(o) == IF IsSome(o) THEN KeyNum(Val(o)) ELSE KeyUndefined

\* `o ?? fallback` and `o || fallback` for the optional fields of a key
NumOr(o, fallback) == KeyNum(IF IsSome(o) THEN Val(o) ELSE fallback)
StrOr(o, fallback) == KeyStr(IF IsSome(o) /\ Val(o) # "" THEN Val(o) ELSE fallback)
NumOrFalsy(o, fallback) == KeyNum(IF IsSome(o) /\ Val(o) # 0 THEN Val(o) ELSE fallback)

\* lib/query/usage.ts 167-198: usageKeys
UsageKeysAll == <<KeyStr("usage")>>
SummaryKey(days) == UsageKeysAll \o <<KeyStr("summary"), KeyNum(days)>>
TrendsKey(days) == UsageKeysAll \o <<KeyStr("trends"), KeyNum(days)>>
ProviderStatsKey == UsageKeysAll \o <<KeyStr("provider-stats")>>
ModelStatsKey == UsageKeysAll \o <<KeyStr("model-stats")>>
LogsKey(key, page, pageSize) ==
    UsageKeysAll \o
    <<KeyStr("logs"), KeyStr(key.timeMode), NumOr(key.rollingWindowSeconds, 0),
      StrOr(key.appType, ""), StrOr(key.providerName, ""), StrOr(key.providerId, ""),
      StrOr(key.model, ""), NumOr(key.statusCode, -1), StrOr(key.statusFilter, ""),
      NumOr(key.startDate, 0), NumOr(key.endDate, 0), NumOr(key.refreshCounter, 0),
      KeyNum(page), KeyNum(pageSize)>>
DetailKey(requestId) == UsageKeysAll \o <<KeyStr("detail"), KeyNum(requestId)>>
FiltersQueryKey(startDate, endDate) ==
    UsageKeysAll \o <<KeyStr("filters"), KeyOpt(startDate), KeyOpt(endDate)>>
PricingKey == UsageKeysAll \o <<KeyStr("pricing")>>
LimitsKey(providerId, appType) ==
    UsageKeysAll \o <<KeyStr("limits"), KeyStr(providerId), KeyStr(appType)>>

\* the key of useRequestLogs with "usage" left out of its literal
UseRequestLogsKeyBare(a) ==
    <<KeyStr("logs"), KeyStr(a.timeMode), KeyNum(a.rollingWindowSeconds),
      StrOr(a.filters.appType, ""), StrOr(a.filters.providerId, ""),
      StrOr(a.filters.model, ""), StrOr(a.filters.statusFilter, ""),
      NumOrFalsy(a.filters.startDate, 0), NumOrFalsy(a.filters.endDate, 0),
      KeyNum(a.page), KeyNum(a.pageSize), KeyNum(a.refreshCounter)>>

\* lib/query/usage.ts 264-280: the queryKey useRequestLogs builds itself
UseRequestLogsKey(a) ==
    <<KeyStr("usage"), KeyStr("logs"), KeyStr(a.timeMode), KeyNum(a.rollingWindowSeconds),
      StrOr(a.filters.appType, ""), StrOr(a.filters.providerId, ""),
      StrOr(a.filters.model, ""), StrOr(a.filters.statusFilter, ""),
      NumOrFalsy(a.filters.startDate, 0), NumOrFalsy(a.filters.endDate, 0),
      KeyNum(a.page), KeyNum(a.pageSize), KeyNum(a.refreshCounter)>>

\* the arguments the hooks are called with
LogsKeyArgs ==
    {[timeMode |-> tm, rollingWindowSeconds |-> w, appType |-> None,
      providerName |-> None, providerId |-> pid, model |-> None, statusCode |-> None,
      statusFilter |-> None, startDate |-> None, endDate |-> None,
      refreshCounter |-> None] :
        tm \in {"rolling", "fixed"}, w \in {None, Some(24 * 60 * 60)},
        pid \in {None, Some("p1")}}
UseRequestLogsArgs ==
    {[timeMode |-> tm, rollingWindowSeconds |-> 24 * 60 * 60,
      filters |-> [appType |-> None, providerId |-> None, model |-> m,
                   statusFilter |-> None, startDate |-> sd, endDate |-> sd],
      page |-> 0, pageSize |-> 20, refreshCounter |-> 0] :
        tm \in {"rolling", "fixed"}, m \in {None, Some("m1")},
        sd \in {None, Some(0), Some(StartSec)}}

\* every key the hooks of lib/query/usage.ts put into the cache
UsageQueryKeys ==
    {SummaryKey(d) : d \in {1, 7, 30}} \cup {TrendsKey(d) : d \in {1, 7, 30}}
    \cup {ProviderStatsKey, ModelStatsKey, PricingKey}
    \cup {LogsKey(k, 0, 20) : k \in LogsKeyArgs}
    \cup {UseRequestLogsKey(a) : a \in UseRequestLogsArgs}
    \cup {DetailKey(id) : id \in 1 .. 4}
    \cup {FiltersQueryKey(sd, ed) : sd, ed \in {None, Some(StartSec)}}
    \cup {LimitsKey(p, a) : p \in {"p1", "p2"}, a \in {"claude", "codex"}}

\* queryKey is a prefix of the key of q (partial matching, exact: false)
KeyMatches(queryKey, q) ==
    /\ Len(queryKey) <= Len(q.key)
    /\ SubSeq(q.key, 1, Len(queryKey)) = queryKey

\* queryClient.removeQueries({ queryKey, exact: false })
RemoveQueries(cache, queryKey) == {q \in cache : ~KeyMatches(queryKey, q)}

(*************************** LogsDashboard *********************************)

\* only the quick options accepted from the query string
GetInitialTimeRangeQuickOnly(u) ==
    IF IsSome(u.timeRange) /\ Val(u.timeRange) \in {"5m", "15m", "30m"}
    THEN Val(u.timeRange)
    ELSE "5m"

\* LogsDashboard.tsx 16-24
GetInitialTimeRange(u) ==
    IF IsSome(u.timeRange) /\ Val(u.timeRange) # "" /\ Val(u.timeRange) \in TimeRanges
    THEN Val(u.timeRange)
    ELSE "5m"

\* LogsDashboard.tsx 54-62
RefreshOptions == {0, 1000, 5000, 10000, 15000, 30000, 60000}

\* LogsDashboard.tsx 152-157
WriteTimeRange(u, timeRange) == [u EXCEPT !.timeRange = Some(timeRange)]

\* LogsDashboard.tsx 78-97 and LogList.tsx 183-199: the auto refresh effect,
\* run because refreshIntervalMs (an optional number) changed or on mount.
\* `ref` is refreshIntervalRef.current; the timer of the previous run was
\* cleared by that run's cleanup.
TimerEffect(refreshIntervalMs, ref) ==
    IF refreshIntervalMs = ref
    THEN [ref |-> ref, timer |-> None]
    ELSE [ref |-> refreshIntervalMs,
          timer |-> IF IsSome(refreshIntervalMs) /\ Val(refreshIntervalMs) > 0
                    THEN refreshIntervalMs ELSE None]

\* The interval timers of the window that the two components created and
\* that are still active: owner is "dashboard" or "list", instance the key
\* LogList was mounted with (0 for the dashboard), period the delay given to
\* setInterval.  `timer` is the handle the effect run created, if any.
Interval(owner, instance, timer) ==
    [owner |-> owner, instance |-> instance, period |-> Val(timer)]

\* an effect that returns no cleanup
ClearIntervalForgotten(intervals, owner, instance, timer) == intervals

\* LogsDashboard.tsx 93-95 and LogList.tsx 195-197: the cleanup of the
\* effect run that created `timer`
ClearInterval(intervals, owner, instance, timer) ==
    IF IsSome(timer) THEN intervals \ {Interval(owner, instance, timer)} ELSE intervals

\* LogsDashboard.tsx 90-92 and LogList.tsx 192-194: setInterval
SetInterval(intervals, owner, instance, timer) ==
    IF IsSome(timer) THEN intervals \cup {Interval(owner, instance, timer)} ELSE intervals

(*************************** LogList ***************************************)

\* LogList.tsx 36-46
GetInitialFilterFromUrl(u) ==
    [provider |-> OrElse(u.provider, ""),
     model    |-> OrElse(u.model, ""),
     protocol |-> OrElse(u.protocol, ""),
     status   |-> OrElse(u.status, "all"),
     page     |-> ParseInt(OrElseChars(u.page, <<"0">>)),
     pageSize |-> ParseInt(OrElseChars(u.pageSize, <<"1", "0">>))]

\* LogList.tsx 50-63, 119-123: the state of a LogList that has just mounted
InitialList(u) ==
    LET initialFilters == GetInitialFilterFromUrl(u)
    IN  [page |-> initialFilters.page,
         pageSize |-> initialFilters.pageSize,
         selectedRequestId |-> None,
         selectedProvider |-> initialFilters.provider,
         selectedModel |-> initialFilters.model,
         selectedProtocol |-> initialFilters.protocol,
         selectedStatusFilter |-> initialFilters.status,
         deleteDialogOpen |-> FALSE,
         deleteDays |-> None,
         deleteCount |-> 0,
         refreshCounter |-> 0,
         logsData |-> None,
         isLoading |-> TRUE,
         refreshIntervalRef |-> None,
         timer |-> None]

\* LogList.tsx 78-112
WriteFilters(u, l) ==
    [u EXCEPT
        !.provider = IF l.selectedProvider # "" THEN Some(l.selectedProvider) ELSE None,
        !.model    = IF l.selectedModel # "" THEN Some(l.selectedModel) ELSE None,
        !.protocol = IF l.selectedProtocol # "" THEN Some(l.selectedProtocol) ELSE None,
        !.status   = IF l.selectedStatusFilter # "all" THEN Some(l.selectedStatusFilter) ELSE None,
        !.page     = IF IsNum(l.page) /\ Val(l.page) > 0 THEN Some(NumToString(l.page)) ELSE None,
        !.pageSize = IF l.pageSize # Num(10) THEN Some(NumToString(l.pageSize)) ELSE None]

\* `s || undefined`
OrUndefined(s) == IF s # "" THEN Some(s) ELSE None

\* The props LogsDashboard passes (LogsDashboard.tsx 306-312); a LogList
\* rendered without props gets undefined for each.
PropsOf(isHosted, d) ==
    IF isHosted
    THEN [startDate |-> Some(d.timeRangeParams.startDate),
          endDate |-> Some(d.timeRangeParams.endDate),
          resolvedAt |-> d.timeRangeParams.resolvedAt,
          providerFilter |-> "", modelFilter |-> "",
          refreshIntervalMs |-> Some(d.refreshIntervalMs),
          manualRefreshTrigger |-> Some(d.manualRefreshTrigger)]
    ELSE [startDate |-> None, endDate |-> None, resolvedAt |-> 0,
          providerFilter |-> "", modelFilter |-> "",
          refreshIntervalMs |-> None, manualRefreshTrigger |-> None]

\* the local selection taken before the parent's filter
EffectiveProviderFilterLocalFirst(props, l) ==
    IF l.selectedProvider # "" THEN l.selectedProvider ELSE props.providerFilter

\* LogList.tsx 115-116
EffectiveProviderFilter(props, l) ==
    IF props.providerFilter # "" THEN props.providerFilter ELSE l.selectedProvider
EffectiveModelFilter(props, l) ==
    IF props.modelFilter # "" THEN props.modelFilter ELSE l.selectedModel

\* LogList.tsx 146-161: the request fetchData sends, the clock reading t
\* taken when it runs
BuildRequest(props, l, t, gen) ==
    LET fixed == IsSome(props.startDate) /\ IsSome(props.endDate)
        rolling == ListRollingRange(24 * 60 * 60, t)
    IN  [gen |-> gen,
         providerId |-> OrUndefined(EffectiveProviderFilter(props, l)),
         model |-> OrUndefined(EffectiveModelFilter(props, l)),
         statusFilter |-> IF l.selectedStatusFilter = "all" THEN None
                          ELSE Some(l.selectedStatusFilter),
         providerType |-> OrUndefined(l.selectedProtocol),
         timeMode |-> IF fixed THEN "fixed" ELSE "rolling",
         startDate |-> IF fixed THEN Val(props.startDate) ELSE rolling.startDate,
         endDate |-> IF fixed THEN Val(props.endDate) ELSE rolling.endDate,
         resolvedAt |-> IF fixed THEN props.resolvedAt ELSE t,
         given |-> [startDate |-> props.startDate, endDate |-> props.endDate],
         page |-> l.page,
         pageSize |-> l.pageSize]

\* the page reset effect without pageSize among its dependencies
ResetDepsWithoutPageSize(props, l) ==
    <<props.startDate, props.endDate, l.selectedStatusFilter, l.selectedProtocol>>

\* the dependency lists of LogList's effects (LogList.tsx 75, 112, 180)
ResetDeps(props, l) ==
    <<props.startDate, props.endDate, l.selectedStatusFilter, l.selectedProtocol, l.pageSize>>
UrlDeps(l) ==
    <<l.selectedProvider, l.selectedModel, l.selectedProtocol, l.selectedStatusFilter,
      l.page, l.pageSize>>
FetchDeps(props, l) ==
    <<l.refreshCounter, l.page, l.pageSize, EffectiveProviderFilter(props, l),
      EffectiveModelFilter(props, l), l.selectedStatusFilter, l.selectedProtocol,
      props.startDate, props.endDate>>

(***************************************************************************)
(* One commit of LogList: the render with state l and props `props` (the   *)
(* previous render had oldL and oldProps; mount: there was none), the      *)
(* effects it runs, and the second render the effects' own setPage and     *)
(* setRefreshCounter cause.  u is the URL before, t the clock, gen the     *)
(* number of the next fetch effect run, live the run not cancelled so far. *)
(***************************************************************************)
RunEffects(mount, oldProps, oldL, props, l, u, t, gen, live) ==
    LET \* first render: which effects run
        resetFires == mount \/ ResetDeps(oldProps, oldL) # ResetDeps(props, l)
        urlFiresA  == mount \/ UrlDeps(oldL) # UrlDeps(l)
        trigFires  == /\ mount \/ oldProps.manualRefreshTrigger # props.manualRefreshTrigger
                      /\ IsSome(props.manualRefreshTrigger)
                      /\ Val(props.manualRefreshTrigger) > 0
        fetchFiresA == mount \/ FetchDeps(oldProps, oldL) # FetchDeps(props, l)
        timerFires == mount \/ oldProps.refreshIntervalMs # props.refreshIntervalMs
        te == TimerEffect(props.refreshIntervalMs, l.refreshIntervalRef)
        uA == IF urlFiresA THEN WriteFilters(u, l) ELSE u
        reqA == BuildRequest(props, l, t, gen)
        genA == IF fetchFiresA THEN gen + 1 ELSE gen
        lA == [l EXCEPT !.isLoading = IF fetchFiresA THEN TRUE ELSE @,
                        !.refreshIntervalRef = IF timerFires THEN te.ref ELSE @,
                        !.timer = IF timerFires THEN te.timer ELSE @]
        \* the state updates the effects asked for
        lB == [lA EXCEPT !.page = IF resetFires THEN Num(0) ELSE @,
                         !.refreshCounter = IF trigFires THEN @ + 1 ELSE @]
        \* second render: the effects whose dependencies changed
        urlFiresB == UrlDeps(lA) # UrlDeps(lB)
        fetchFiresB == FetchDeps(props, lA) # FetchDeps(props, lB)
        reqB == BuildRequest(props, lB, t, genA)
    IN  [list |-> lB,
         url |-> IF urlFiresB THEN WriteFilters(uA, lB) ELSE uA,
         issued |-> (IF fetchFiresA THEN {reqA} ELSE {})
                    \cup (IF fetchFiresB THEN {reqB} ELSE {}),
         liveGen |-> IF fetchFiresB THEN genA
                     ELSE IF fetchFiresA THEN gen ELSE live,
         nextGen |-> IF fetchFiresB THEN genA + 1 ELSE genA]

\* the key of the useAvailableFilters query (LogList.tsx 202)
FiltersKey(props) == [startDate |-> props.startDate, endDate |-> props.endDate]

\* the query LogList observes after a render: a new key starts a new query
ObserveFilters(f, props, removed) ==
    IF removed \/ f.key # FiltersKey(props)
    THEN [key |-> FiltersKey(props), status |-> "loading",
          data |-> [providers |-> {}, models |-> {}]]
    ELSE f

\* LogList commits: the variables one commit of LogList sets
CommitList(mount, oldProps, oldL, props, l, u, t, removed) ==
    LET r == RunEffects(mount, oldProps, oldL, props, l, u, t, nextGen, liveGen)
    IN  /\ list' = r.list
        /\ url' = r.url
        /\ fetches' = fetches \cup r.issued
        /\ liveGen' = r.liveGen
        /\ nextGen' = r.nextGen
        /\ filters' = ObserveFilters(filters, props, removed)

\* the most fetch effect runs of one behaviour
MaxFetches == 4

\* the most refreshes (manual or by the dashboard's timer) of one behaviour
MaxRefreshes == 2

CanFetch == nextGen <= MaxFetches

NoDash ==
    [refreshIntervalMs |-> 0, timeRange |-> "5m", manualRefreshTrigger |-> 0,
     timeRangeParams |-> [startDate |-> 0, endDate |-> 0, resolvedAt |-> 0],
     refreshIntervalRef |-> None, timer |-> None, intervals |-> {}]

NoList == InitialList(NoParams)

NoHist ==
    [lastRefreshAt |-> 0, lastCall |-> None, lastDelete |-> None, countedStore |-> {},
     loadedWith |-> NoParams, countedFor |-> None]

\* nothing is mounted and nothing is in flight
UiIdle ==
    /\ loaded = FALSE
    /\ dash = NoDash
    /\ list = NoList
    /\ filters = [key |-> [startDate |-> None, endDate |-> None], status |-> "loading",
                  data |-> [providers |-> {}, models |-> {}]]
    /\ fetches = {}
    /\ liveGen = 0
    /\ nextGen = 1
    /\ countCall = None
    /\ deleteCall = None
    /\ pendingRefresh = FALSE
    /\ store = InitialStore
    /\ toast = None
    /\ hist = NoHist

\* LogsDashboard.tsx 126-132 with the reading times recorded
ResolveTimeRangeParams(range, t1, t2) ==
    [startDate |-> TimeRangeParams(range, t1, t2).startDate,
     endDate |-> TimeRangeParams(range, t1, t2).endDate,
     resolvedAt |-> t1]

\* The page is loaded: LogsDashboard mounts (LogsDashboard.tsx 26-34, 78-97,
\* 126-132, 152-157) with its LogList, or LogList mounts alone.
LoadPage ==
    /\ ~loaded
    /\ loaded' = TRUE
    /\ \E t2 \in LaterReads(now) :
        LET range == GetInitialTimeRange(url)
            te == TimerEffect(Some(0), None)
            d == IF hosted
                 THEN [refreshIntervalMs |-> 0, timeRange |-> range,
                       manualRefreshTrigger |-> 0,
                       timeRangeParams |-> ResolveTimeRangeParams(range, now, t2),
                       refreshIntervalRef |-> te.ref, timer |-> te.timer,
                       intervals |-> SetInterval({}, "dashboard", 0, te.timer)]
                 ELSE NoDash
            t == IF hosted THEN t2 ELSE now
            u == IF hosted THEN WriteTimeRange(url, range) ELSE url
        IN  /\ dash' = d
            /\ now' = t
            /\ CommitList(TRUE, PropsOf(hosted, d), InitialList(url),
                          PropsOf(hosted, d), InitialList(url), u, t, FALSE)
    /\ hist' = [hist EXCEPT !.loadedWith = url]
    /\ UNCHANGED <<hosted, countCall, deleteCall, pendingRefresh, store, toast,
                   detailVars, hookVars>>

(***************************************************************************)
(* A commit of LogsDashboard after its state changed to d1 (timeRange,     *)
(* refreshIntervalMs or manualRefreshTrigger): the memo is recomputed, the *)
(* effects run, and LogList is re-rendered, or mounted anew when its key   *)
(* (manualRefreshTrigger) changed.  removed: the usage queries were        *)
(* removed from the cache first.                                           *)
(***************************************************************************)
CommitDashboard(d1, removed) ==
    \E t2 \in LaterReads(now) :
        LET te == TimerEffect(Some(d1.refreshIntervalMs), dash.refreshIntervalRef)
            timerFires == d1.refreshIntervalMs # dash.refreshIntervalMs
            d == [d1 EXCEPT
                    !.timeRangeParams = ResolveTimeRangeParams(d1.timeRange, now, t2),
                    !.refreshIntervalRef = IF timerFires THEN te.ref ELSE @,
                    !.timer = IF timerFires THEN te.timer ELSE @]
            u == IF d1.timeRange # dash.timeRange THEN WriteTimeRange(url, d1.timeRange) ELSE url
            remount == d1.manualRefreshTrigger # dash.manualRefreshTrigger
            \* LogList's timer effect is cleaned up when LogList unmounts or its
            \* refreshIntervalMs changed, and runs in the instance then rendered
            listRuns == remount \/ timerFires
            cleared == LET a == IF timerFires
                                THEN ClearInterval(dash.intervals, "dashboard", 0, dash.timer)
                                ELSE dash.intervals
                       IN  IF listRuns
                           THEN ClearInterval(a, "list", dash.manualRefreshTrigger, list.timer)
                           ELSE a
        IN  /\ now' = t2
            /\ IF remount
               THEN CommitList(TRUE, PropsOf(TRUE, d), InitialList(url),
                               PropsOf(TRUE, d), InitialList(url), u, t2, removed)
               ELSE CommitList(FALSE, PropsOf(TRUE, dash), list,
                               PropsOf(TRUE, d), list, u, t2, removed)
            /\ dash' = [d EXCEPT !.intervals =
                    LET a == IF listRuns
                             THEN SetInterval(cleared, "list", d1.manualRefreshTrigger,
                                              list'.timer)
                             ELSE cleared
                    IN  IF timerFires THEN SetInterval(a, "dashboard", 0, te.timer) ELSE a]

\* the active interval timers a component instance created
ActiveTimers(owner, instance) ==
    {i \in dash.intervals : i.owner = owner /\ i.instance = instance}

\* LogsDashboard.tsx 178-215: a time range is chosen
SelectTimeRange(range) ==
    /\ loaded /\ hosted /\ CanFetch
    /\ range # dash.timeRange
    /\ CommitDashboard([dash EXCEPT !.timeRange = range], FALSE)
    /\ UNCHANGED <<loaded, hosted, countCall, deleteCall, pendingRefresh, store, toast,
                   hist, detailVars, hookVars>>

\* LogsDashboard.tsx 64-67
ChangeRefreshInterval(value) ==
    /\ loaded /\ hosted /\ CanFetch
    /\ value # dash.refreshIntervalMs
    /\ CommitDashboard([dash EXCEPT !.refreshIntervalMs = value], FALSE)
    /\ UNCHANGED <<loaded, hosted, countCall, deleteCall, pendingRefresh, store, toast,
                   hist, detailVars, hookVars>>

\* what unmounting LogList leaves behind: the callbacks of its mutations and
\* its pending timeout no longer reach a component
Unmounted(call) == IF IsSome(call) THEN Some([Val(call) EXCEPT !.mounted = FALSE]) ELSE call

\* LogsDashboard.tsx 69-74
HandleManualRefresh ==
    /\ loaded /\ hosted /\ CanFetch
    /\ dash.manualRefreshTrigger < MaxRefreshes
    /\ queryCache' = RemoveQueries(queryCache, <<KeyStr("usage")>>)
    /\ CommitDashboard([dash EXCEPT !.manualRefreshTrigger = @ + 1], TRUE)
    /\ countCall' = Unmounted(countCall)
    /\ deleteCall' = Unmounted(deleteCall)
    /\ pendingRefresh' = FALSE
    /\ detailQuery' = None
    /\ hist' = [hist EXCEPT !.lastRefreshAt = now]
    /\ UNCHANGED <<loaded, hosted, store, toast, detailVars, resolved, hookCall, probe>>

\* LogsDashboard.tsx 90-92: the dashboard's interval timer fires
DashboardTimerFires ==
    /\ loaded /\ hosted /\ CanFetch
    /\ ActiveTimers("dashboard", 0) # {}
    /\ dash.manualRefreshTrigger < MaxRefreshes
    /\ CommitDashboard([dash EXCEPT !.manualRefreshTrigger = @ + 1], FALSE)
    /\ countCall' = Unmounted(countCall)
    /\ deleteCall' = Unmounted(deleteCall)
    /\ pendingRefresh' = FALSE
    /\ detailQuery' = None
    /\ hist' = [hist EXCEPT !.lastRefreshAt = now]
    /\ UNCHANGED <<loaded, hosted, store, toast, detailVars, resolved, hookCall, probe,
                   queryCache>>

(*************************** LogList handlers ******************************)

\* LogList.tsx 240-242: the controls are rendered only when nothing loads
Interactive == loaded /\ ~list.isLoading /\ filters.status # "loading"

\* a re-render of LogList after one of its handlers set its state to l1
ListSetState(l1) ==
    /\ CommitList(FALSE, PropsOf(hosted, dash), list, PropsOf(hosted, dash), l1, url,
                  now, FALSE)
    /\ UNCHANGED <<now, dash>>

ProtocolOptions == {"claude", "codex", "gemini"}
PageSizeOptions == {10, 20, 50, 100, 200, 500}
DeleteOptions == {Some(1), Some(7), Some(30), Some(90), None}

\* LogList.tsx 309-323
SetSelectedProvider(p) ==
    /\ Interactive /\ CanFetch
    /\ p \in {""} \cup filters.data.providers
    /\ p # list.selectedProvider
    /\ ListSetState([list EXCEPT !.selectedProvider = p])
    /\ UNCHANGED <<loaded, hosted, countCall, deleteCall, pendingRefresh, store, toast,
                   hist, detailVars, hookVars>>

\* LogList.tsx 337-351
SetSelectedModel(m) ==
    /\ Interactive /\ CanFetch
    /\ m \in {""} \cup filters.data.models
    /\ m # list.selectedModel
    /\ ListSetState([list EXCEPT !.selectedModel = m])
    /\ UNCHANGED <<loaded, hosted, countCall, deleteCall, pendingRefresh, store, toast,
                   hist, detailVars, hookVars>>

\* LogList.tsx 368-382
SetSelectedProtocol(p) ==
    /\ Interactive /\ CanFetch
    /\ p \in {""} \cup ProtocolOptions
    /\ p # list.selectedProtocol
    /\ ListSetState([list EXCEPT !.selectedProtocol = p])
    /\ UNCHANGED <<loaded, hosted, countCall, deleteCall, pendingRefresh, store, toast,
                   hist, detailVars, hookVars>>

\* LogList.tsx 391-397
SetSelectedStatusFilter(v) ==
    /\ Interactive /\ CanFetch
    /\ v \in {"all", "success", "error"}
    /\ v # list.selectedStatusFilter
    /\ ListSetState([list EXCEPT !.selectedStatusFilter = v])
    /\ UNCHANGED <<loaded, hosted, countCall, deleteCall, pendingRefresh, store, toast,
                   hist, detailVars, hookVars>>

\* LogList.tsx 483, 509-517: the size menu is part of the pagination bar
SetPageSize(size) ==
    /\ Interactive /\ CanFetch
    /\ IsSome(list.logsData)
    /\ size \in PageSizeOptions
    /\ Num(size) # list.pageSize
    /\ ListSetState([list EXCEPT !.pageSize = Num(size)])
    /\ UNCHANGED <<loaded, hosted, countCall, deleteCall, pendingRefresh, store, toast,
                   hist, detailVars, hookVars>>

\* the page count rounded down instead of up
TotalPagesFloor(l) ==
    IF IsSome(l.logsData) /\ IsNum(l.pageSize) /\ Val(l.pageSize) >= 1
    THEN Num(Val(l.logsData).total \div Val(l.pageSize))
    ELSE IF IsSome(l.logsData) THEN NaN ELSE Num(0)

\* LogList.tsx 237: Math.ceil(logsData.total / pageSize), for the page sizes
\* data is ever loaded with (pageSize >= 1); NaN for pageSize NaN
TotalPages(l) ==
    IF IsSome(l.logsData) /\ IsNum(l.pageSize) /\ Val(l.pageSize) >= 1
    THEN Num((Val(l.logsData).total + Val(l.pageSize) - 1) \div Val(l.pageSize))
    ELSE IF IsSome(l.logsData) THEN NaN ELSE Num(0)

\* LogList.tsx 523-530
PrevPage ==
    /\ Interactive /\ CanFetch
    /\ IsSome(list.logsData)
    /\ list.page # Num(0)
    /\ ListSetState([list EXCEPT
            !.page = IF IsNum(@) THEN Num(IF Val(@) - 1 > 0 THEN Val(@) - 1 ELSE 0) ELSE NaN])
    /\ UNCHANGED <<loaded, hosted, countCall, deleteCall, pendingRefresh, store, toast,
                   hist, detailVars, hookVars>>

\* LogList.tsx 531-538
NextPage ==
    /\ Interactive /\ CanFetch
    /\ IsSome(list.logsData)
    /\ ~(IsNum(list.page) /\ IsNum(TotalPages(list))
         /\ Val(list.page) >= Val(TotalPages(list)) - 1)
    /\ ListSetState([list EXCEPT
            !.page = IF IsNum(@) /\ IsNum(TotalPages(list))
                     THEN Num(IF Val(TotalPages(list)) - 1 < Val(@) + 1
                              THEN Val(TotalPages(list)) - 1 ELSE Val(@) + 1)
                     ELSE NaN])
    /\ UNCHANGED <<loaded, hosted, countCall, deleteCall, pendingRefresh, store, toast,
                   hist, detailVars, hookVars>>

\* LogList.tsx 430: a row is clicked
SelectRequest(id) ==
    /\ Interactive
    /\ IsSome(list.logsData)
    /\ \E i \in 1 .. Len(Val(list.logsData).data) : Val(list.logsData).data[i] = id
    /\ list.selectedRequestId # Some(id)
    /\ list' = [list EXCEPT !.selectedRequestId = Some(id)]
    /\ detailQuery' = Some([requestId |-> id, status |-> "pending", data |-> None,
                            outcome |-> "none"])
    /\ UNCHANGED <<now, loaded, hosted, url, dash, filters, fetches, liveGen, nextGen,
                   countCall, deleteCall, pendingRefresh, store, toast, hist,
                   detailVars, resolved, hookCall, probe,
                   queryCache>>

\* LogList.tsx 544, 556: the dialog closes and LogDetail unmounts
DismissDetail ==
    /\ Interactive
    /\ IsSome(list.selectedRequestId)
    /\ list' = [list EXCEPT !.selectedRequestId = None]
    /\ detailQuery' = None
    /\ UNCHANGED <<now, loaded, hosted, url, dash, filters, fetches, liveGen, nextGen,
                   countCall, deleteCall, pendingRefresh, store, toast, hist,
                   detailVars, resolved, hookCall, probe,
                   queryCache>>

\* the backend's getRequestDetail: the record, or an explicit absent result
GetRequestDetail(st, id) ==
    IF \E r \in st : r.requestId = id
    THEN Some(CHOOSE r \in st : r.requestId = id)
    ELSE None

\* lib/query/usage.ts 314-320: getRequestDetail returns
DetailSucceeds ==
    /\ IsSome(detailQuery)
    /\ Val(detailQuery).status = "pending"
    /\ detailQuery' = Some([Val(detailQuery) EXCEPT
            !.status = "success",
            !.data = GetRequestDetail(store, Val(detailQuery).requestId),
            !.outcome = IF IsSome(GetRequestDetail(store, Val(detailQuery).requestId))
                        THEN "found" ELSE "absent"])
    /\ UNCHANGED <<now, uiVars, detailVars, resolved, hookCall, probe,
                   queryCache>>

\* lib/query/usage.ts 314-320: getRequestDetail fails (storage unavailable)
DetailFails ==
    /\ IsSome(detailQuery)
    /\ Val(detailQuery).status = "pending"
    /\ detailQuery' = Some([Val(detailQuery) EXCEPT !.status = "error",
                                                    !.outcome = "failure"])
    /\ UNCHANGED <<now, uiVars, detailVars, resolved, hookCall, probe,
                   queryCache>>

\* LogsDashboard.tsx 331, 341-355: what LogDetail renders for the query q
LogDetailView(q) ==
    LET isLoading == q.status = "pending"
        log == q.data
    IN  IF isLoading THEN "loading"
        ELSE IF ~IsSome(log) THEN "notFound"
        ELSE "detail"

\* LogList.tsx 192-194: LogList's own interval timer fires
ListTimerFires ==
    /\ loaded /\ CanFetch
    /\ ActiveTimers("list", dash.manualRefreshTrigger) # {}
    /\ ListSetState([list EXCEPT !.refreshCounter = @ + 1])
    /\ UNCHANGED <<loaded, hosted, countCall, deleteCall, pendingRefresh, store, toast,
                   hist, detailVars, hookVars>>

(*************************** getRequestLogs responses **********************)

\* a response handled without looking at the effect's `cancelled` flag
CancelledIgnored(req, live) == TRUE

\* LogList.tsx 163, 169: `if (!cancelled)`
NotCancelled(req, live) == req.gen = live

\* LogList.tsx 161-172: the call of req returns
FetchSucceeds(req) ==
    /\ req \in fetches
    /\ ValidRequest(req)
    /\ fetches' = fetches \ {req}
    /\ IF NotCancelled(req, liveGen)
       THEN /\ list' = [list EXCEPT !.logsData = Some(GetRequestLogs(store, req)),
                                    !.isLoading = FALSE]
            /\ hist' = [hist EXCEPT !.lastCall = Some([call |-> "getRequestLogs", ok |-> TRUE])]
       ELSE UNCHANGED <<list, hist>>
    /\ UNCHANGED <<now, loaded, hosted, url, dash, filters, liveGen, nextGen, countCall,
                   deleteCall, pendingRefresh, store, toast, detailVars, hookVars>>

\* LogList.tsx 166-172: the call of req throws
FetchFails(req) ==
    /\ req \in fetches
    /\ fetches' = fetches \ {req}
    /\ IF NotCancelled(req, liveGen)
       THEN /\ list' = [list EXCEPT !.isLoading = FALSE]
            /\ hist' = [hist EXCEPT !.lastCall = Some([call |-> "getRequestLogs", ok |-> FALSE])]
       ELSE UNCHANGED <<list, hist>>
    /\ UNCHANGED <<now, loaded, hosted, url, dash, filters, liveGen, nextGen, countCall,
                   deleteCall, pendingRefresh, store, toast, detailVars, hookVars>>

\* lib/query/usage.ts useAvailableFilters: the query settles
FiltersSettle(ok) ==
    /\ loaded
    /\ filters.status = "loading"
    /\ filters' = IF ok
                  THEN [filters EXCEPT !.status = "success",
                                       !.data = AvailableFilters(store, filters.key)]
                  ELSE [filters EXCEPT !.status = "error"]
    /\ UNCHANGED <<now, loaded, hosted, url, dash, list, fetches, liveGen, nextGen,
                   countCall, deleteCall, pendingRefresh, store, toast, hist,
                   detailVars, hookVars>>

(*************************** bulk delete ***********************************)

\* the delete range with the operands of the subtraction exchanged
DeleteRangeExchanged(days, t) ==
    [startDate |-> 0,
     endDate |-> IF IsSome(days) THEN Val(days) * 24 * 60 * 60 - NowSec(t) ELSE NowSec(t)]

\* LogList.tsx 210-213 and 575-578: the range of a delete option, the clock
\* read at t
DeleteRange(days, t) ==
    [startDate |-> 0,
     endDate |-> IF IsSome(days) THEN NowSec(t) - Val(days) * 24 * 60 * 60 ELSE NowSec(t)]

\* LogList.tsx 209-224
PrepareDelete(days) ==
    /\ Interactive
    /\ days \in DeleteOptions
    /\ list' = [list EXCEPT !.deleteDays = days]
    /\ countCall' = Some([range |-> DeleteRange(days, now), mounted |-> TRUE, shown |-> 0,
                          days |-> days])
    /\ UNCHANGED <<now, loaded, hosted, url, dash, filters, fetches, liveGen, nextGen,
                   deleteCall, pendingRefresh, store, toast, hist, detailVars, hookVars>>

\* LogList.tsx 218-221: the count returns
CountSucceeds ==
    /\ IsSome(countCall)
    /\ countCall' = None
    /\ IF Val(countCall).mounted
       THEN /\ list' = [list EXCEPT !.deleteCount = CountByDate(store, Val(countCall).range),
                                    !.deleteDialogOpen = TRUE]
            /\ hist' = [hist EXCEPT
                    !.lastCall = Some([call |-> "countRequestLogsByDate", ok |-> TRUE]),
                    !.countedStore = store,
                    !.countedFor = Some(Val(countCall).days)]
       ELSE UNCHANGED <<list, hist>>
    /\ UNCHANGED <<now, loaded, hosted, url, dash, filters, fetches, liveGen, nextGen,
                   deleteCall, pendingRefresh, store, toast, detailVars, hookVars>>

\* LogList.tsx 215-223: the count fails; mutate was given no onError
CountFails ==
    /\ IsSome(countCall)
    /\ countCall' = None
    /\ IF Val(countCall).mounted
       THEN hist' = [hist EXCEPT
                    !.lastCall = Some([call |-> "countRequestLogsByDate", ok |-> FALSE])]
       ELSE UNCHANGED hist
    /\ UNCHANGED <<now, loaded, hosted, url, dash, list, filters, fetches, liveGen,
                   nextGen, deleteCall, pendingRefresh, store, toast, detailVars, hookVars>>

\* LogList.tsx 574-596: the dialog's confirm button (one delete at a time)
ConfirmDelete ==
    /\ Interactive
    /\ list.deleteDialogOpen
    /\ deleteCall = None
    /\ deleteCall' = Some([range |-> DeleteRange(list.deleteDays, now), mounted |-> TRUE,
                           shown |-> list.deleteCount])
    /\ UNCHANGED <<now, loaded, hosted, url, dash, list, filters, fetches, liveGen,
                   nextGen, countCall, pendingRefresh, store, toast, hist, detailVars,
                   hookVars>>

\* LogList.tsx 597-600
CancelDelete ==
    /\ Interactive
    /\ list.deleteDialogOpen
    /\ list' = [list EXCEPT !.deleteDialogOpen = FALSE, !.deleteDays = None]
    /\ UNCHANGED <<now, loaded, hosted, url, dash, filters, fetches, liveGen, nextGen,
                   countCall, deleteCall, pendingRefresh, store, toast, hist, detailVars,
                   hookVars>>

\* LogList.tsx 582-589: the delete returns
DeleteSucceeds ==
    /\ IsSome(deleteCall)
    /\ deleteCall' = None
    /\ store' = DeleteByDate(store, Val(deleteCall).range)
    /\ IF Val(deleteCall).mounted
       THEN /\ list' = [list EXCEPT !.deleteDialogOpen = FALSE]
            /\ pendingRefresh' = TRUE
            /\ toast' = Some([kind |-> "success", call |-> "deleteRequestLogsByDate"])
            /\ hist' = [hist EXCEPT
                    !.lastCall = Some([call |-> "deleteRequestLogsByDate", ok |-> TRUE]),
                    !.lastDelete = Some([shown |-> Val(deleteCall).shown,
                                         removed |-> Cardinality(store) - Cardinality(store'),
                                         quiet |-> store = hist.countedStore])]
       ELSE UNCHANGED <<list, pendingRefresh, toast, hist>>
    /\ UNCHANGED <<now, loaded, hosted, url, dash, filters, fetches, liveGen, nextGen,
                   countCall, detailVars, hookVars>>

\* LogList.tsx 590-593: the delete fails
DeleteFails ==
    /\ IsSome(deleteCall)
    /\ deleteCall' = None
    /\ IF Val(deleteCall).mounted
       THEN /\ list' = [list EXCEPT !.deleteDialogOpen = FALSE]
            /\ toast' = Some([kind |-> "error", call |-> "deleteRequestLogsByDate"])
            /\ hist' = [hist EXCEPT
                    !.lastCall = Some([call |-> "deleteRequestLogsByDate", ok |-> FALSE])]
       ELSE UNCHANGED <<list, toast, hist>>
    /\ UNCHANGED <<now, loaded, hosted, url, dash, filters, fetches, liveGen, nextGen,
                   countCall, pendingRefresh, store, detailVars, hookVars>>

\* LogList.tsx 585-587: the timeout set by the delete's onSuccess runs
DeleteRefreshRuns ==
    /\ pendingRefresh /\ CanFetch
    /\ pendingRefresh' = FALSE
    /\ ListSetState([list EXCEPT !.refreshCounter = @ + 1])
    /\ UNCHANGED <<loaded, hosted, countCall, deleteCall, store, toast, hist,
                   detailVars, hookVars>>

\* time passes
Tick ==
    /\ ClockTick
    /\ UNCHANGED <<uiVars, detailVars, hookVars>>

(*************************** the query hooks *******************************)

WindowDays == {1, 7, 30}

\* lib/query/usage.ts useUsageSummary / useUsageTrends: the queryFn runs
UseUsageWindow(days) ==
    /\ days \in WindowDays
    /\ resolved' = Some([site |-> "getWindow", seconds |-> days * 24 * 60 * 60,
                         window |-> GetWindow(days, now)])
    /\ UNCHANGED <<now, hookCall, detailQuery, probe, queryCache, uiVars, detailVars>>

\* lib/query/usage.ts useRequestLogs in rolling mode: the queryFn runs
UseRequestLogsRolling(rollingWindowSeconds) ==
    /\ rollingWindowSeconds \in {24 * 60 * 60, 60 * 60}
    /\ resolved' = Some([site |-> "getRollingRange", seconds |-> rollingWindowSeconds,
                         window |-> HookRollingRange(rollingWindowSeconds, now)])
    /\ UNCHANGED <<now, hookCall, detailQuery, probe, queryCache, uiVars, detailVars>>

\* The calendar days (UTC, counted from the epoch) of the window
\* [startDate, endDate]; the day that only begins at endDate is not one.
CalendarDays(startDate, endDate) ==
    IF endDate > startDate THEN (startDate \div DaySec) .. ((endDate - 1) \div DaySec)
    ELSE {}

\* getUsageTrends of the backend: one bucket per calendar day of the
\* window, oldest first, a day without records with zero values
GetUsageTrends(st, startDate, endDate) ==
    LET days == CalendarDays(startDate, endDate)
        first == startDate \div DaySec
    IN  [i \in 1 .. Cardinality(days) |->
            [date |-> first + i - 1,
             requestCount |->
                Cardinality({r \in st : /\ InWindow(r, startDate, endDate)
                                        /\ r.createdAt \div DaySec = first + i - 1})]]

\* the most usage queries other components keep in the cache
MaxCached == 2

\* lib/query/usage.ts 207-343: a component elsewhere calls one of the hooks,
\* and useQuery puts a query with the hook's key into the cache
UseQuery(key) ==
    /\ key \in UsageQueryKeys
    /\ Cardinality(queryCache) < MaxCached
    /\ \A q \in queryCache : q.key # key
    /\ queryCache' = queryCache \cup {[key |-> key, since |-> dash.manualRefreshTrigger]}
    /\ UNCHANGED <<now, resolved, hookCall, detailQuery, probe, uiVars, detailVars>>

\* lib/query/usage.ts 219-229: the queryFn of useUsageTrends runs
FetchUsageTrends(days) ==
    /\ days \in WindowDays
    /\ LET window == GetWindow(days, now)
       IN  /\ resolved' = Some([site |-> "getWindow", seconds |-> days * 24 * 60 * 60,
                                window |-> window])
           /\ hookCall' = Some([hook |-> "useUsageTrends",
                                args |-> [days |-> days],
                                sent |-> window,
                                result |-> GetUsageTrends(store, window.startDate,
                                                          window.endDate),
                                at |-> now])
    /\ UNCHANGED <<now, detailQuery, probe, queryCache, uiVars, detailVars>>

\* the timeMode values of RequestLogsQueryArgs (lib/query/usage.ts 141)
TimeModes == {"rolling", "fixed"}

\* the optional startDate / endDate a caller puts in filters
HookDates == {None, Some(StartSec - 60 * 60), Some(StartSec)}

\* the rollingWindowSeconds a caller passes (24 hours is the default)
HookWindows == {24 * 60 * 60, 60 * 60}

\* lib/query/usage.ts 297-302: the filters the queryFn of useRequestLogs sends
EffectiveFilters(logFilters, timeMode, rollingWindowSeconds, t) ==
    IF timeMode = "rolling"
    THEN [logFilters EXCEPT
            !.startDate = Some(HookRollingRange(rollingWindowSeconds, t).startDate),
            !.endDate = Some(HookRollingRange(rollingWindowSeconds, t).endDate)]
    ELSE logFilters

\* lib/query/usage.ts 255-312: the queryFn of useRequestLogs runs
UseRequestLogs(logFilters, timeMode, rollingWindowSeconds) ==
    /\ timeMode \in TimeModes
    /\ hookCall' = Some([hook |-> "useRequestLogs",
                         args |-> [filters |-> logFilters, timeMode |-> timeMode,
                                   rollingWindowSeconds |-> rollingWindowSeconds],
                         sent |-> EffectiveFilters(logFilters, timeMode,
                                                   rollingWindowSeconds, now),
                         at |-> now])
    /\ resolved' = IF timeMode = "rolling"
                   THEN Some([site |-> "getRollingRange",
                              seconds |-> rollingWindowSeconds,
                              window |-> HookRollingRange(rollingWindowSeconds, now)])
                   ELSE resolved
    /\ UNCHANGED <<now, detailQuery, probe, queryCache, uiVars, detailVars>>

(*************************** specifications ********************************)

\* before the page is loaded: a query string, and who renders LogList
UiInit ==
    /\ UiIdle
    /\ url \in UrlCases
    /\ hosted \in BOOLEAN
    /\ now = StartTick
    /\ resolved = None
    /\ hookCall = None
    /\ detailQuery = None
    /\ probe = None
    /\ queryCache = {}
    /\ shownLog = None
    /\ rowCells = None
    /\ detailCells = None

DashboardNext ==
    \/ \E range \in TimeRanges : SelectTimeRange(range)
    \/ \E value \in RefreshOptions : ChangeRefreshInterval(value)
    \/ HandleManualRefresh
    \/ DashboardTimerFires

FilterNext ==
    \/ \E p \in {"", "p1", "p2"} : SetSelectedProvider(p)
    \/ \E m \in {"", "m1", "m2"} : SetSelectedModel(m)
    \/ \E p \in {""} \cup ProtocolOptions : SetSelectedProtocol(p)
    \/ \E v \in {"all", "success", "error"} : SetSelectedStatusFilter(v)

PagingNext ==
    \/ \E size \in PageSizeOptions : SetPageSize(size)
    \/ PrevPage
    \/ NextPage

FetchNext ==
    \/ \E req \in fetches : FetchSucceeds(req)
    \/ \E req \in fetches : FetchFails(req)
    \/ \E ok \in BOOLEAN : FiltersSettle(ok)
    \/ ListTimerFires

DeleteNext ==
    \/ \E days \in DeleteOptions : PrepareDelete(days)
    \/ CountSucceeds
    \/ CountFails
    \/ ConfirmDelete
    \/ CancelDelete
    \/ DeleteSucceeds
    \/ DeleteFails
    \/ DeleteRefreshRuns

HookNext ==
    \/ \E days \in WindowDays : UseUsageWindow(days)
    \/ \E w \in {24 * 60 * 60, 60 * 60} : UseRequestLogsRolling(w)

Next ==
    \/ LoadPage
    \/ Tick
    \/ DashboardNext
    \/ FilterNext
    \/ PagingNext
    \/ FetchNext
    \/ DeleteNext
    \/ \E id \in 1 .. 4 : SelectRequest(id)
    \/ DismissDetail

Spec == UiInit /\ [][Next]_vars

(***************************************************************************)
(* Parts of the system, each with the handlers one concern needs.  Every   *)
(* behaviour of a part is a behaviour of Spec with the other handlers not  *)
(* taken.                                                                  *)
(***************************************************************************)

\* Window resolution: the dashboard's memo, LogList's rolling requests (a
\* LogList rendered without props) and the windows of the query hooks.
WindowInit == UiInit /\ url = NoParams

WindowNext ==
    \/ LoadPage
    \/ Tick
    \/ \E range \in TimeRanges : SelectTimeRange(range)
    \/ \E days \in WindowDays : UseUsageWindow(days)
    \/ \E w \in {24 * 60 * 60, 60 * 60} : UseRequestLogsRolling(w)

SpecWindow == WindowInit /\ [][WindowNext]_vars

\* the time ranges and refresh intervals chosen in SpecRefresh
RefreshRanges == {"5m", "1h"}
RefreshChoices == {0, 1000}

\* Refreshing: the dashboard with its LogList, both interval timers, the
\* manual refresh and the answers to the list's requests.
RefreshInit == UiInit /\ hosted /\ url = NoParams

RefreshNext ==
    \/ LoadPage
    \/ Tick
    \/ \E range \in RefreshRanges : SelectTimeRange(range)
    \/ \E value \in RefreshChoices : ChangeRefreshInterval(value)
    \/ HandleManualRefresh
    \/ DashboardTimerFires
    \/ ListTimerFires
    \/ \E req \in fetches : FetchSucceeds(req)
    \/ \E req \in fetches : FetchFails(req)

SpecRefresh == RefreshInit /\ [][RefreshNext]_vars

\* The list with its filters and pagination, started from every query string
\* of UrlCases, inside the dashboard and alone.
ListNext ==
    \/ LoadPage
    \/ FilterNext
    \/ PagingNext
    \/ \E req \in fetches : FetchSucceeds(req)
    \/ \E req \in fetches : FetchFails(req)
    \/ \E ok \in BOOLEAN : FiltersSettle(ok)

SpecList == UiInit /\ [][ListNext]_vars

\* the list's last request has been answered
Settled == fetches = {}

\* Mounting: the page is loaded with each query string of UrlCases and
\* left alone while the calls of the mount are answered.
MountNext ==
    \/ LoadPage
    \/ Tick
    \/ \E req \in fetches : FetchSucceeds(req)
    \/ \E req \in fetches : FetchFails(req)
    \/ \E ok \in BOOLEAN : FiltersSettle(ok)

SpecMount == UiInit /\ [][MountNext]_vars

\* The time range: the dashboard loaded with each query string of UrlCases,
\* and each of its time range buttons, pressed when the list's last request
\* has been answered.
TimeRangeInit == UiInit /\ hosted

TimeRangeNext ==
    \/ LoadPage
    \/ \E range \in TimeRanges : Settled /\ SelectTimeRange(range)
    \/ \E req \in fetches : FetchSucceeds(req)
    \/ \E req \in fetches : FetchFails(req)

SpecTimeRange == TimeRangeInit /\ [][TimeRangeNext]_vars

\* query strings with which the list has more than one page: two records
\* a page, inside the dashboard with the one-day range
PagingUrls ==
    {[NoParams EXCEPT !.pageSize = Some(<<"2">>)],
     [NoParams EXCEPT !.pageSize = Some(<<"2">>), !.timeRange = Some("1d")]}

\* Paging and what resets it: the list on a later page, then a change of
\* the time range, the status or protocol filter or the page size, and the
\* answers to the requests of both renders in either order.  The user acts
\* when no request is in flight, and picks among two page sizes, two
\* protocols and the ranges of RefreshRanges.
PagingInit ==
    /\ UiIdle
    /\ url \in PagingUrls
    /\ hosted \in BOOLEAN
    /\ now = StartTick
    /\ resolved = None /\ hookCall = None /\ detailQuery = None /\ probe = None
    /\ queryCache = {}
    /\ shownLog = None /\ rowCells = None /\ detailCells = None

PagingFlowNext ==
    \/ LoadPage
    \/ Settled /\ NextPage
    \/ Settled /\ PrevPage
    \/ \E size \in {10, 20} : Settled /\ SetPageSize(size)
    \/ \E v \in {"all", "success", "error"} : Settled /\ SetSelectedStatusFilter(v)
    \/ \E p \in {"", "claude"} : Settled /\ SetSelectedProtocol(p)
    \/ \E range \in RefreshRanges : Settled /\ SelectTimeRange(range)
    \/ \E req \in fetches : FetchSucceeds(req)
    \/ \E req \in fetches : FetchFails(req)
    \/ \E ok \in BOOLEAN : FiltersSettle(ok)

SpecPaging == PagingInit /\ [][PagingFlowNext]_vars

\* the confirmation dialog is modal, and here the user opens the delete menu
\* only when no call of an earlier choice is pending
MenuFree ==
    /\ ~list.deleteDialogOpen
    /\ countCall = None /\ deleteCall = None /\ ~pendingRefresh

\* Bulk delete: a LogList rendered alone, its delete menu and dialog, the
\* store the calls act on, and the clock.
DeleteInit == UiInit /\ ~hosted /\ url = NoParams

DeleteFlowNext ==
    \/ LoadPage
    \/ Tick
    \/ \E days \in DeleteOptions : MenuFree /\ PrepareDelete(days)
    \/ CountSucceeds
    \/ CountFails
    \/ ConfirmDelete
    \/ CancelDelete
    \/ DeleteSucceeds
    \/ DeleteFails
    \/ DeleteRefreshRuns
    \/ \E req \in fetches : FetchSucceeds(req)
    \/ \E req \in fetches : FetchFails(req)
    \/ \E ok \in BOOLEAN : FiltersSettle(ok)

SpecDelete == DeleteInit /\ [][DeleteFlowNext]_vars

\* The query hooks called by some component, next to a LogList that sends
\* its own requests.
HooksInit == UiInit /\ url = NoParams

HooksNext ==
    \/ LoadPage
    \/ Tick
    \/ \E days \in WindowDays : UseUsageWindow(days)
    \/ \E w \in HookWindows : UseRequestLogsRolling(w)
    \/ \E sd \in HookDates, ed \in HookDates, mode \in TimeModes, w \in HookWindows :
            UseRequestLogs([startDate |-> sd, endDate |-> ed], mode, w)
    \/ \E days \in WindowDays : FetchUsageTrends(days)

SpecHooks == HooksInit /\ [][HooksNext]_vars

\* The detail dialog: a LogList rendered alone, a row opened in LogDetail,
\* and a bulk delete that can remove the record of a row still displayed.
LookupInit == UiInit /\ ~hosted /\ url = NoParams

LookupNext ==
    \/ LoadPage
    \/ \E req \in fetches : FetchSucceeds(req)
    \/ \E ok \in BOOLEAN : FiltersSettle(ok)
    \/ \E id \in 1 .. 4 : SelectRequest(id)
    \/ DismissDetail
    \/ DetailSucceeds
    \/ DetailFails
    \/ \E days \in DeleteOptions : MenuFree /\ PrepareDelete(days)
    \/ CountSucceeds
    \/ ConfirmDelete
    \/ DeleteSucceeds
    \/ DeleteRefreshRuns

SpecLookup == LookupInit /\ [][LookupNext]_vars

\* Every time range the views send: the dashboard with each of its time
\* ranges and its manual refresh, LogList inside it and alone, and the
\* delete menu with each of its options.  The user does one thing at a
\* time: the range is changed or the page refreshed only when the list's
\* last request has been answered and no delete is under way.
RangesInit == UiInit /\ url = NoParams

RangesNext ==
    \/ LoadPage
    \/ Tick
    \/ \E range \in TimeRanges : Settled /\ MenuFree /\ SelectTimeRange(range)
    \/ Settled /\ MenuFree /\ HandleManualRefresh
    \/ \E req \in fetches : FetchSucceeds(req)
    \/ \E ok \in BOOLEAN : FiltersSettle(ok)
    \/ \E days \in DeleteOptions : MenuFree /\ PrepareDelete(days)
    \/ CountSucceeds
    \/ ConfirmDelete
    \/ DeleteFails

SpecRanges == RangesInit /\ [][RangesNext]_vars

\* The query cache: hooks of lib/query/usage.ts called by other components
\* next to the dashboard, and the dashboard's manual refresh.
CacheInit == UiInit /\ hosted /\ url = NoParams

CacheNext ==
    \/ LoadPage
    \/ \E key \in UsageQueryKeys : UseQuery(key)
    \/ HandleManualRefresh

SpecCache == CacheInit /\ [][CacheNext]_vars

\* Bulk delete inside the dashboard: the delete menu and dialog of a
\* LogList that the dashboard's manual refresh and interval timer mount
\* anew, with one-second auto refresh as the interval chosen.  The
\* confirmation dialog is taken to be modal: while it is open the user
\* reaches none of the dashboard's buttons, and only the timer refreshes.
\* The user opens the delete menu when the list is at rest and picks the
\* one-day option or all; the count and the delete succeed.
HostedDeleteInit == UiInit /\ hosted /\ url = NoParams

HostedDeleteNext ==
    \/ LoadPage
    \/ \E req \in fetches : FetchSucceeds(req)
    \/ \E ok \in BOOLEAN : FiltersSettle(ok)
    \/ \E days \in {Some(1), None} : MenuFree /\ Settled /\ PrepareDelete(days)
    \/ CountSucceeds
    \/ ConfirmDelete
    \/ CancelDelete
    \/ DeleteSucceeds
    \/ DeleteRefreshRuns
    \/ \E value \in RefreshChoices : ~list.deleteDialogOpen /\ ChangeRefreshInterval(value)
    \/ ~list.deleteDialogOpen /\ HandleManualRefresh
    \/ DashboardTimerFires

SpecHostedDelete == HostedDeleteInit /\ [][HostedDeleteNext]_vars

\* Timers: the dashboard with its LogList, the refresh interval switched
\* among off and two periods, manual refreshes and the firing of every
\* active timer of a mounted component.
TimerChoices == {0, 5000, 30000}

TimersInit == UiInit /\ hosted /\ url = NoParams

TimersNext ==
    \/ LoadPage
    \/ \E value \in TimerChoices : ChangeRefreshInterval(value)
    \/ HandleManualRefresh
    \/ DashboardTimerFires
    \/ ListTimerFires
    \/ \E req \in fetches : FetchSucceeds(req)
    \/ FiltersSettle(TRUE)

SpecTimers == TimersInit /\ [][TimersNext]_vars

\* Browsing: the list alone with two rows a page, every call answered
\* successfully, the user acting when no request is in flight: paging,
\* choosing a provider or a model, and deleting the logs older than a day.
BrowseInit == PagingInit /\ ~hosted /\ url = [NoParams EXCEPT !.pageSize = Some(<<"2">>)]

BrowseNext ==
    \/ LoadPage
    \/ \E req \in fetches : FetchSucceeds(req)
    \/ FiltersSettle(TRUE)
    \/ Settled /\ MenuFree /\ NextPage
    \/ Settled /\ MenuFree /\ PrevPage
    \/ \E p \in {"", "p1", "p2"} : Settled /\ MenuFree /\ SetSelectedProvider(p)
    \/ \E m \in {"", "m1", "m2"} : Settled /\ MenuFree /\ SetSelectedModel(m)
    \/ Settled /\ MenuFree /\ PrepareDelete(Some(1))
    \/ CountSucceeds
    \/ ConfirmDelete
    \/ DeleteSucceeds
    \/ DeleteRefreshRuns

SpecBrowse == BrowseInit /\ [][BrowseNext]_vars

(*************************** reading the backend ***************************)

\* everything of the views and hooks at rest, while a caller reads the
\* backend directly
ViewsAtRest ==
    /\ UiIdle
    /\ url = NoParams
    /\ hosted = FALSE
    /\ now = StartTick
    /\ resolved = None
    /\ hookCall = None
    /\ detailQuery = None
    /\ queryCache = {}
    /\ shownLog = None
    /\ rowCells = None
    /\ detailCells = None

\* records to page through: two of them share their createdAt
PagedRecords ==
    {[requestId |-> 1, createdAt |-> StartSec - 300, providerId |-> "p1",
      model |-> "m1", providerType |-> "claude", statusCode |-> 200],
     [requestId |-> 2, createdAt |-> StartSec - 200, providerId |-> "p1",
      model |-> "m2", providerType |-> "codex", statusCode |-> 500],
     [requestId |-> 3, createdAt |-> StartSec - 200, providerId |-> "p2",
      model |-> "m1", providerType |-> "claude", statusCode |-> 200],
     [requestId |-> 4, createdAt |-> StartSec - 100, providerId |-> "p2",
      model |-> "m2", providerType |-> "gemini", statusCode |-> 404]}

\* the largest page size paged with
MaxWalkPageSize == 3

\* the filters paged with
WalkFilters ==
    {[providerId |-> None, model |-> None, providerType |-> None, statusFilter |-> sf,
      startDate |-> sd, endDate |-> StartSec] :
        sf \in {None, Some("success"), Some("error")}, sd \in {0, StartSec - 200}}

PagesInit ==
    /\ ViewsAtRest
    /\ probe \in {Some([kind |-> "pages", records |-> rs, filter |-> f, pageSize |-> ps,
                         page |-> 0, n |-> 0, seen |-> <<>>, totals |-> {},
                         last |-> <<>>]) :
                    rs \in SUBSET PagedRecords, f \in WalkFilters,
                    ps \in 1 .. MaxWalkPageSize}

\* the request for page `page` of the walk w
WalkRequest(w, page) ==
    [gen |-> 0, providerId |-> w.filter.providerId, model |-> w.filter.model,
     providerType |-> w.filter.providerType, statusFilter |-> w.filter.statusFilter,
     startDate |-> w.filter.startDate, endDate |-> w.filter.endDate,
     page |-> Num(page), pageSize |-> Num(w.pageSize)]

\* the caller reads the next page, up to page totalPages (LogList.tsx 237)
\* of the total it was told last
ReadPage ==
    /\ IsSome(probe)
    /\ Val(probe).kind = "pages"
    /\ Val(probe).page = 0 \/ Val(probe).page <= Val(probe).n
    /\ LET w == Val(probe)
           res == GetRequestLogs(w.records, WalkRequest(w, w.page))
           totalPages == TotalPages([logsData |-> Some(res),
                                     pageSize |-> Num(w.pageSize)])
       IN  probe' = Some([w EXCEPT !.page = @ + 1,
                                   !.n = Val(totalPages),
                                   !.seen = @ \o res.data,
                                   !.totals = @ \cup {res.total},
                                   !.last = res.data])
    /\ UNCHANGED <<now, resolved, hookCall, detailQuery, queryCache, uiVars, detailVars>>

\* the walk has read the pages 0 .. totalPages
WalkDone(w) == w.kind = "pages" /\ w.page > 0 /\ w.page > w.n

PagesNext == ReadPage

SpecPages == PagesInit /\ [][PagesNext]_vars

(*************************** pricing a record ******************************)
(* The calculator that prices a record when it is stored is not part of    *)
(* these files; it is modelled from the specification (4.1, cost           *)
(* breakdown): exact decimal arithmetic, the results kept as decimal        *)
(* strings.  Money is counted in units of 10^-10 USD: token counts are      *)
(* whole, rates and the multiplier have two decimals, so                    *)
(* tokens / 1000000 * rate * multiplier is a whole number of units.         *)
(***************************************************************************)

\* the decimals of a cost string
CostDecimals == 10

\* the pricing table: rates per million tokens in hundredths of a USD
PricingTable ==
    [m1 |-> Some([inputCostPerMillion |-> 300, outputCostPerMillion |-> 1500,
                  cacheReadCostPerMillion |-> 30, cacheCreationCostPerMillion |-> 375]),
     m2 |-> Some([inputCostPerMillion |-> 25, outputCostPerMillion |-> 125,
                  cacheReadCostPerMillion |-> 3, cacheCreationCostPerMillion |-> 31]),
     m3 |-> None]

\* costMultiplier values, in hundredths
CostMultipliers == {50, 100, 150}

\* token counts of the records priced
PricedTokenCounts == {0, 1, 1000}

\* tokens / 1000000 * ratePerMillion * costMultiplier, in units
CostOf(tokens, ratePerMillion, costMultiplier) == tokens * ratePerMillion * costMultiplier

\* the digits of n, most significant first, padded with zeros to `width`
RECURSIVE PadDigits(_, _)
PadDigits(n, width) ==
    IF width = 0 THEN <<>>
    ELSE PadDigits(n \div 10, width - 1) \o <<DigitChars[(n % 10) + 1]>>

\* units as a decimal string of USD: "0." and CostDecimals digits
\* (every cost priced here is below one USD)
ToDecimalString(units) == <<"0", ".">> \o PadDigits(units, CostDecimals)

RECURSIVE DigitsToNat(_, _)
DigitsToNat(digits, acc) ==
    IF digits = <<>> THEN acc
    ELSE DigitsToNat(Tail(digits), acc * 10 + DigitVal(Head(digits)))

\* the units a decimal string of USD stands for
ParseDecimal(str) == DigitsToNat(SubSeq(str, 3, Len(str)), 0)

\* the four cost components of a raw record, in units (all zero when the
\* model has no pricing entry)
CostComponents(raw) ==
    LET pricing == PricingTable[raw.model]
    IN  [input |-> IF IsSome(pricing)
                   THEN CostOf(raw.inputTokens, Val(pricing).inputCostPerMillion,
                               raw.costMultiplier) ELSE 0,
         output |-> IF IsSome(pricing)
                    THEN CostOf(raw.outputTokens, Val(pricing).outputCostPerMillion,
                                raw.costMultiplier) ELSE 0,
         cacheRead |-> IF IsSome(pricing)
                       THEN CostOf(raw.cacheReadTokens,
                                   Val(pricing).cacheReadCostPerMillion,
                                   raw.costMultiplier) ELSE 0,
         cacheCreation |-> IF IsSome(pricing)
                           THEN CostOf(raw.cacheCreationTokens,
                                       Val(pricing).cacheCreationCostPerMillion,
                                       raw.costMultiplier) ELSE 0]

\* a total summed from components cut to six decimals first
TotalOfRounded(c) ==
    LET cut(x) == (x \div 10000) * 10000
    IN  cut(c.input) + cut(c.output) + cut(c.cacheRead) + cut(c.cacheCreation)

\* the total of the four components
TotalCost(c) == c.input + c.output + c.cacheRead + c.cacheCreation

\* the cost fields of the stored RequestLog (types/usage.ts 23-27)
PricedRecord(raw) ==
    LET c == CostComponents(raw)
    IN  [inputCostUsd |-> ToDecimalString(c.input),
         outputCostUsd |-> ToDecimalString(c.output),
         cacheReadCostUsd |-> ToDecimalString(c.cacheRead),
         cacheCreationCostUsd |-> ToDecimalString(c.cacheCreation),
         totalCostUsd |-> ToDecimalString(TotalCost(c))]

PricingInit ==
    /\ ViewsAtRest
    /\ probe \in {Some([kind |-> "raw",
                         raw |-> [model |-> mdl, costMultiplier |-> cm,
                                  inputTokens |-> it, outputTokens |-> ot,
                                  cacheReadTokens |-> crt, cacheCreationTokens |-> cct],
                         stored |-> None]) :
                    mdl \in {"m1", "m2", "m3"}, cm \in CostMultipliers,
                    it \in PricedTokenCounts, ot \in PricedTokenCounts,
                    crt \in PricedTokenCounts, cct \in PricedTokenCounts}

\* the record is priced and stored, once
StoreRecord ==
    /\ IsSome(probe)
    /\ Val(probe).kind = "raw"
    /\ probe' = Some([Val(probe) EXCEPT !.kind = "stored",
                                        !.stored = Some(PricedRecord(Val(probe).raw))])
    /\ UNCHANGED <<now, resolved, hookCall, detailQuery, queryCache, uiVars, detailVars>>

PricingNext == StoreRecord

SpecPricing == PricingInit /\ [][PricingNext]_vars

(*************************** a parent with filters *************************)

\* A LogList rendered by a parent that passes providerFilter and
\* modelFilter, with each combination of empty and chosen selections, about
\* to run fetchData.
ParentInit ==
    /\ ViewsAtRest
    /\ probe \in {Some([kind |-> "rendered",
                         props |-> [PropsOf(FALSE, NoDash) EXCEPT
                                        !.providerFilter = pf, !.modelFilter = mf,
                                        !.startDate = sd, !.endDate = sd],
                         list |-> [NoList EXCEPT !.selectedProvider = sp,
                                                 !.selectedModel = sm,
                                                 !.selectedProtocol = st,
                                                 !.selectedStatusFilter = sf],
                         request |-> None]) :
                    pf \in {"", "p1"}, mf \in {"", "m2"}, sd \in {None, Some(StartSec)},
                    sp \in {"", "p1", "p2"}, sm \in {"", "m1"},
                    st \in {""} \cup ProtocolOptions, sf \in {"all", "error"}}

\* LogList.tsx 140-161: the fetch effect of that render builds its request
FetchData ==
    /\ IsSome(probe)
    /\ Val(probe).kind = "rendered"
    /\ probe' = Some([Val(probe) EXCEPT
            !.kind = "sent",
            !.request = Some(BuildRequest(Val(probe).props, Val(probe).list, now, 1))])
    /\ UNCHANGED <<now, resolved, hookCall, detailQuery, queryCache, uiVars, detailVars>>

ParentNext == FetchData

SpecParent == ParentInit /\ [][ParentNext]_vars

(*************************** the list row **********************************)

\* LogList.tsx 461-473: the colour class of the status badge
RowStatusClass(statusCode) ==
    IF statusCode >= 200 /\ statusCode < 300 THEN "success"
    ELSE IF statusCode >= 400 THEN "error"
    ELSE "other"

\* LogList.tsx 443-454: the TPS cell ('-' is None)
RowTps(log) ==
    IF log.isStreaming /\ TruthyNum(log.firstTokenMs)
    THEN LET outputTimeMs == log.latencyMs - Val(log.firstTokenMs)
         IN  IF outputTimeMs > 0 /\ log.outputTokens > 0
             THEN Some(ToFixed(log.outputTokens * 1000, outputTimeMs, 2))
             ELSE None
    ELSE IF log.latencyMs # 0 /\ log.outputTokens > 0
         THEN Some(ToFixed(log.outputTokens * 1000, log.latencyMs, 2))
         ELSE None

RenderRow(log) ==
    [statusClass |-> RowStatusClass(log.statusCode), tps |-> RowTps(log)]

(*************************** LogDetail *************************************)

\* LogsDashboard.tsx 407-417
DetailStatusClassOffByOne(statusCode) ==
    IF statusCode >= 200 /\ statusCode <= 300 THEN "success"
    ELSE IF statusCode >= 400 THEN "error"
    ELSE "other"

DetailStatusClass(statusCode) ==
    IF statusCode >= 200 /\ statusCode < 300 THEN "success"
    ELSE IF statusCode >= 400 THEN "error"
    ELSE "other"

\* LogsDashboard.tsx 375-377
OutputTimeMs(log) ==
    IF log.latencyMs # 0 /\ TruthyNum(log.firstTokenMs)
    THEN log.latencyMs - Val(log.firstTokenMs)
    ELSE log.latencyMs          \* log.latencyMs || 0

\* LogsDashboard.tsx 378-380
DetailTpot(log) ==
    IF log.outputTokens > 0 /\ OutputTimeMs(log) > 0
    THEN Some(ToFixed(OutputTimeMs(log), log.outputTokens, 2))
    ELSE None

\* LogsDashboard.tsx 381-383
DetailTps(log) ==
    IF log.outputTokens > 0 /\ OutputTimeMs(log) > 0
    THEN Some(ToFixed(log.outputTokens * 1000, OutputTimeMs(log), 2))
    ELSE None

\* log.cacheReadTokens || 0
CacheReadOrZero(log) ==
    IF TruthyNum(log.cacheReadTokens) THEN Val(log.cacheReadTokens) ELSE 0

\* LogsDashboard.tsx 386
TotalTokens(log) == log.inputTokens + log.outputTokens + CacheReadOrZero(log)

\* LogsDashboard.tsx 387-389
CacheHitRate(log) ==
    IF TotalTokens(log) > 0
    THEN Some(ToFixed(CacheReadOrZero(log) * 100, TotalTokens(log), 1))
    ELSE None

\* A cell written `x ? shown(x) : '-'` over a number instead of a string
CellOfNumber(o) == IF IsSome(o) /\ Val(o).scaled # 0 THEN o ELSE None

\* LogsDashboard.tsx 471, 489, 496: `x ? shown(x) : '-'` over string | null
CellOf(o) == IF TruthyStr(o) THEN o ELSE None

RenderDetail(log) ==
    [statusClass  |-> DetailStatusClass(log.statusCode),
     tps          |-> CellOf(DetailTps(log)),
     tpot         |-> CellOf(DetailTpot(log)),
     cacheHitRate |-> CellOf(CacheHitRate(log))]

(***************************************************************************)
(* The records rendered: RequestLog (types/usage.ts) restricted to the     *)
(* fields the cells read.  Token counts are non-negative; firstTokenMs and *)
(* cacheReadTokens may be missing.                                         *)
(***************************************************************************)
MaxSmallTokens == 2

StatusCodes == {0, 199, 200, 204, 299, 300, 301, 399, 400, 404, 500}
LatenciesMs == {0, 150, 2000}
FirstTokenOpts == {None, Some(0), Some(100), Some(200), Some(2000)}
OutputTokenCounts == (0 .. MaxSmallTokens - 1) \cup {100}
InputTokenCounts == {0, 10}
CacheReadOpts == {None} \cup {Some(n) : n \in 0 .. MaxSmallTokens - 1} \cup {Some(40)}

\* firstTokenMs, when present, is at most latencyMs
RequestLogs ==
    {log \in [statusCode : StatusCodes, isStreaming : BOOLEAN, latencyMs : LatenciesMs,
              firstTokenMs : FirstTokenOpts, outputTokens : OutputTokenCounts,
              inputTokens : InputTokenCounts, cacheReadTokens : CacheReadOpts] :
        IsSome(log.firstTokenMs) => Val(log.firstTokenMs) <= log.latencyMs}

DetailInit ==
    /\ shownLog \in RequestLogs
    /\ rowCells = None
    /\ detailCells = None
    /\ now = StartTick
    /\ resolved = None
    /\ hookCall = None
    /\ detailQuery = None
    /\ probe = None
    /\ queryCache = {}
    /\ UiIdle
    /\ hosted = TRUE
    /\ url = NoParams

\* the list renders the row of the fetched record
ShowRow ==
    /\ rowCells = None
    /\ rowCells' = Some(RenderRow(shownLog))
    /\ UNCHANGED <<shownLog, detailCells, now, hookVars, uiVars>>

\* the row is clicked: LogDetail renders the same (immutable) record
OpenDetail ==
    /\ IsSome(rowCells)
    /\ detailCells = None
    /\ detailCells' = Some(RenderDetail(shownLog))
    /\ UNCHANGED <<shownLog, rowCells, now, hookVars, uiVars>>

\* the detail dialog is closed
CloseDetail ==
    /\ IsSome(detailCells)
    /\ detailCells' = None
    /\ UNCHANGED <<shownLog, rowCells, now, hookVars, uiVars>>

DetailNext ==
    \/ ShowRow
    \/ OpenDetail
    \/ CloseDetail

SpecDetail == DetailInit /\ [][DetailNext]_vars

(***************************************************************************)
(* Claims about bulk delete and failures, checked under SpecDelete.        *)
(***************************************************************************)

\* C1: with nothing else writing to the store between the count and the
\* delete, the count the dialog showed equals the number of records the
\* confirmed delete removed, for every option and any delay before confirming.
C1_CountMatchesRemoved ==
    (IsSome(hist.lastDelete) /\ Val(hist.lastDelete).quiet)
        => Val(hist.lastDelete).shown = Val(hist.lastDelete).removed

\* C2: every failed call of LogList (getRequestLogs, countRequestLogsByDate,
\* deleteRequestLogsByDate) is surfaced: once a call has failed, the user is
\* shown an error naming it.
C2_FailuresSurfaced ==
    (IsSome(hist.lastCall) /\ ~Val(hist.lastCall).ok)
        => toast = Some([kind |-> "error", call |-> Val(hist.lastCall).call])

(***************************************************************************)
(* Claims about windows, checked under SpecWindow and SpecRefresh.         *)
(***************************************************************************)

\* C3: every rolling window the client resolves spans exactly its window
\* length: the dashboard's timeRangeParams, the rolling requests of LogList,
\* and the windows getRollingRange and getWindow of the hooks resolve.
C3_WindowsExact ==
    /\ (loaded /\ hosted)
        => dash.timeRangeParams.endDate - dash.timeRangeParams.startDate
           = GetTimeRangeSeconds(dash.timeRange)
    /\ \A req \in fetches :
        req.timeMode = "rolling" => req.endDate - req.startDate = 24 * 60 * 60
    /\ IsSome(resolved)
        => Val(resolved).window.endDate - Val(resolved).window.startDate
           = Val(resolved).seconds

\* C4: in the dashboard, a displayed log result was fetched with a window
\* resolved at or after the latest refresh (manual or by the dashboard's
\* timer), never with one resolved before it.
C4_WindowNotBeforeRefresh ==
    (loaded /\ hosted /\ IsSome(list.logsData))
        => Val(list.logsData).req.resolvedAt >= hist.lastRefreshAt

\* a result is displayed after a refresh that happened later than the load
C4_Witness ==
    /\ loaded /\ hosted /\ IsSome(list.logsData)
    /\ hist.lastRefreshAt > StartTick
    /\ dash.manualRefreshTrigger > 0

(***************************************************************************)
(* Claims about the requests LogList sends, checked under SpecList.        *)
(***************************************************************************)

\* C5: every getRequestLogs request carries a page >= 0 and a pageSize that
\* is a positive integer no greater than 500, the first request after a
\* load from the URL included.
C5_PageAndSizeInRange ==
    \A req \in fetches :
        /\ IsNum(req.page) /\ Val(req.page) >= 0
        /\ IsNum(req.pageSize) /\ Val(req.pageSize) >= 1 /\ Val(req.pageSize) <= 500

\* C6: the statusFilter of every getRequestLogs request is absent or exactly
\* "success" or "error", whatever the URL's status parameter was.
C6_StatusFilterValues ==
    \A req \in fetches : req.statusFilter \in {None, Some("success"), Some("error")}

(***************************************************************************)
(* Claims about the query hooks, checked under SpecHooks.                  *)
(***************************************************************************)

\* C11: every log request honours the window mode: a caller that supplies
\* both startDate and endDate gets exactly that range sent, any other caller
\* gets [now - window, now] resolved when the request is made, and both
\* bounds of the request are defined either way.  (The requests of LogList
\* and of useRequestLogs.)
C11_WindowModesHonoured ==
    /\ \A req \in fetches :
        IF IsSome(req.given.startDate) /\ IsSome(req.given.endDate)
        THEN /\ req.startDate = Val(req.given.startDate)
             /\ req.endDate = Val(req.given.endDate)
        ELSE /\ req.endDate = NowSec(req.resolvedAt)
             /\ req.startDate = req.endDate - 24 * 60 * 60
    /\ (IsSome(hookCall) /\ Val(hookCall).hook = "useRequestLogs") =>
        LET given == Val(hookCall).args.filters
            sent == Val(hookCall).sent
        IN  /\ IsSome(sent.startDate) /\ IsSome(sent.endDate)
            /\ IF IsSome(given.startDate) /\ IsSome(given.endDate)
               THEN sent = given
               ELSE /\ Val(sent.endDate) = NowSec(Val(hookCall).at)
                    /\ Val(sent.startDate)
                       = Val(sent.endDate) - Val(hookCall).args.rollingWindowSeconds

\* C15: the trend series of a window [start, end] has exactly
\* ceil((end - start) / 86400) buckets, one for each calendar day of the
\* window, days without records included; checked for the windows
\* useUsageTrends sends.
C15_TrendBuckets ==
    (IsSome(hookCall) /\ Val(hookCall).hook = "useUsageTrends") =>
        LET startDate == Val(hookCall).sent.startDate
            endDate == Val(hookCall).sent.endDate
            series == Val(hookCall).result
        IN  /\ Len(series) = (endDate - startDate + DaySec - 1) \div DaySec
            /\ {series[i].date : i \in 1 .. Len(series)}
                = CalendarDays(startDate, endDate)
            /\ \A i, j \in 1 .. Len(series) :
                    i # j => series[i].date # series[j].date

(***************************************************************************)
(* Claims about the time ranges sent, checked under SpecRanges.            *)
(***************************************************************************)

WellFormedRange(startDate, endDate) == 0 <= startDate /\ startDate <= endDate

\* C16: every time range the dashboard and the list send with both bounds
\* (log queries in flight or displayed, the available-filters query, the
\* count and the delete request) satisfies 0 <= startDate <= endDate.
C16_RangesWellFormed ==
    /\ \A req \in fetches : WellFormedRange(req.startDate, req.endDate)
    /\ IsSome(list.logsData) =>
            WellFormedRange(Val(list.logsData).req.startDate,
                            Val(list.logsData).req.endDate)
    /\ (loaded /\ IsSome(filters.key.startDate) /\ IsSome(filters.key.endDate)) =>
            WellFormedRange(Val(filters.key.startDate), Val(filters.key.endDate))
    /\ IsSome(countCall) =>
            WellFormedRange(Val(countCall).range.startDate, Val(countCall).range.endDate)
    /\ IsSome(deleteCall) =>
            WellFormedRange(Val(deleteCall).range.startDate, Val(deleteCall).range.endDate)

\* the dashboard's widest range is displayed while the delete with the
\* longest retention is being sent
C16_Witness ==
    /\ hosted /\ dash.timeRange = "30d"
    /\ IsSome(list.logsData)
    /\ Val(list.logsData).req.endDate - Val(list.logsData).req.startDate >= 30 * DaySec
    /\ IsSome(filters.key.startDate)
    /\ IsSome(deleteCall)
    /\ Val(deleteCall).range.endDate <= NowSec(now) - 90 * DaySec

\* C17: the provider and model choices LogList offers are the distinct
\* values of the records inside the window of the log query it displays,
\* whether the window was given by the dashboard or is the rolling one.
C17_FilterChoicesOfDisplayedWindow ==
    (loaded /\ ~list.isLoading /\ IsSome(list.logsData) /\ filters.status = "success") =>
        LET req == Val(list.logsData).req
        IN  filters.data = AvailableFilters(store, [startDate |-> Some(req.startDate),
                                                    endDate |-> Some(req.endDate)])

(***************************************************************************)
(* Claims about mounting from the query string, checked under SpecMount.   *)
(***************************************************************************)

\* C18: LogList mounts with provider, model, protocol, status, page and
\* pageSize taken from the query string (defaults "", "", "", "all", 0, 10),
\* and the result set it then displays was fetched for those values: a
\* query string with page=k leads to page k being displayed.
C18_MountDisplaysUrlValues ==
    (loaded /\ ~list.isLoading /\ IsSome(list.logsData)) =>
        LET initial == GetInitialFilterFromUrl(hist.loadedWith)
            req == Val(list.logsData).req
        IN  /\ req.providerId = OrUndefined(initial.provider)
            /\ req.model = OrUndefined(initial.model)
            /\ req.providerType = OrUndefined(initial.protocol)
            /\ req.statusFilter = (IF initial.status = "all" THEN None
                                   ELSE Some(initial.status))
            /\ req.pageSize = initial.pageSize
            /\ req.page = initial.page
            /\ list.page = initial.page

(***************************************************************************)
(* Claims about the time range, checked under SpecTimeRange.               *)
(***************************************************************************)

\* C19: the dashboard's timeRange is always one of 5m, 15m, 30m, 1h, 5h,
\* 12h, 1d, 7d, 30d, so the default branch of getTimeRangeSeconds is never
\* taken; a query string without timeRange or with an unrecognised one
\* gives 5m, a recognised one gives itself; and the range selected is the
\* one the query string holds and a reload would read back.
C19_TimeRangeRoundTrips ==
    /\ [](loaded => /\ dash.timeRange \in TimeRanges
                     /\ url.timeRange = Some(dash.timeRange)
                     /\ GetInitialTimeRange(url) = dash.timeRange)
    /\ [][(~loaded /\ loaded') =>
            dash'.timeRange = (IF IsSome(url.timeRange) /\ Val(url.timeRange) \in TimeRanges
                               THEN Val(url.timeRange) ELSE "5m")]_vars

\* loaded with an unrecognised range, then the widest range selected
C19_Witness ==
    /\ loaded
    /\ hist.loadedWith.timeRange = Some("10m")
    /\ dash.timeRange = "30d"
    /\ url.timeRange = Some("30d")

(***************************************************************************)
(* Claims about the page reset, checked under SpecPaging.                  *)
(***************************************************************************)

\* C20: whenever startDate, endDate, the status filter, the protocol filter
\* or pageSize of a mounted LogList changes, its page is reset to 0; and a
\* result becomes displayed only if it was fetched for the current values
\* and the current page, so the result fetched for the new values with the
\* old non-zero page is never displayed.
C20_PageResetOnChange ==
    /\ [][(/\ loaded /\ loaded'
           /\ \/ PropsOf(hosted, dash).startDate # PropsOf(hosted, dash').startDate
              \/ PropsOf(hosted, dash).endDate # PropsOf(hosted, dash').endDate
              \/ list.selectedStatusFilter # list'.selectedStatusFilter
              \/ list.selectedProtocol # list'.selectedProtocol
              \/ list.pageSize # list'.pageSize)
           => list'.page = Num(0)]_vars
    /\ [][(list'.logsData # list.logsData /\ IsSome(list'.logsData)) =>
            LET req == Val(list'.logsData).req
            IN  /\ req.page = list'.page
                /\ req.pageSize = list'.pageSize
                /\ req.statusFilter = (IF list'.selectedStatusFilter = "all" THEN None
                                       ELSE Some(list'.selectedStatusFilter))
                /\ req.providerType = OrUndefined(list'.selectedProtocol)
                /\ req.given = [startDate |-> PropsOf(hosted, dash').startDate,
                                endDate |-> PropsOf(hosted, dash').endDate]]_vars

\* the list was on page 1 when the page size changed: the request of the
\* first render (new size, page 1) is still in flight, superseded, and the
\* result of the second render's request (new size, page 0) is displayed
C20_Witness ==
    /\ loaded /\ ~list.isLoading /\ IsSome(list.logsData)
    /\ hist.loadedWith.pageSize = Some(<<"2">>)
    /\ list.pageSize = Num(20) /\ list.page = Num(0)
    /\ Val(list.logsData).req.gen = liveGen
    /\ Val(list.logsData).req.page = Num(0)
    /\ Val(list.logsData).req.pageSize = Num(20)
    /\ \E a \in fetches : /\ a.gen < liveGen
                           /\ a.page = Num(1)
                           /\ a.pageSize = Num(20)

(***************************************************************************)
(* Claims about bulk delete inside the dashboard, checked under            *)
(* SpecHostedDelete.                                                       *)
(***************************************************************************)

C22_RefreshEmptiesCache ==
    /\ [](\A q \in queryCache : q.key[1] = KeyStr("usage"))
    /\ [][(loaded /\ dash.timer = None
           /\ dash'.manualRefreshTrigger # dash.manualRefreshTrigger) =>
            /\ queryCache' = {}
            /\ filters'.status = "loading"
            /\ detailQuery' = None]_vars

\* after the second manual refresh the cache holds only queries made since
\* it, one of them a query of useRequestLogs
C22_Witness ==
    /\ dash.manualRefreshTrigger = 2
    /\ \E q \in queryCache : q.since = 2 /\ q.key[2] = KeyStr("logs") /\ Len(q.key) = 13
    /\ \A q \in queryCache : q.since = 2

(***************************************************************************)
(* Claims about superseded requests, checked under SpecList.               *)
(***************************************************************************)

\* the answer to a request that is no longer the fetch effect's latest
\* changes neither logsData nor isLoading (LogList.tsx 163, 169)
StaleResponsesDiscarded ==
    [][\A req \in fetches :
          (req.gen # liveGen /\ req \notin fetches')
              => /\ list'.logsData = list.logsData
                 /\ list'.isLoading = list.isLoading]_vars

\* C24: the log data LogList displays is never the response to a request
\* that has been superseded by a newer getRequestLogs request: the rows on
\* display are those of the latest request the fetch effect issued.
C24_DisplayedIsLatest ==
    (Interactive /\ IsSome(list.logsData)) => Val(list.logsData).req.gen = liveGen

(***************************************************************************)
(* Claims about what a refresh leaves alone, checked under                 *)
(* SpecHostedDelete.                                                       *)
(***************************************************************************)

\* C25: a refresh in LogsDashboard (manual, or a tick of its timer) leaves
\* LogList's page, the selected request of the detail dialog and the open
\* state, day selection and count of the delete dialog as they were.
C25_RefreshKeepsListState ==
    [][(loaded /\ dash'.manualRefreshTrigger # dash.manualRefreshTrigger)
        => /\ list'.page = list.page
           /\ list'.selectedRequestId = list.selectedRequestId
           /\ list'.deleteDialogOpen = list.deleteDialogOpen
           /\ list'.deleteDays = list.deleteDays
           /\ list'.deleteCount = list.deleteCount]_vars

(***************************************************************************)
(* Claims about the page index, checked under SpecBrowse.                  *)
(***************************************************************************)

\* C26: whenever LogList displays the loaded answer to its latest request
\* with total > 0, the page index is a number with
\* 0 <= page <= ceil(total / pageSize) - 1.
C26_PageWithinTotal ==
    (/\ Interactive /\ IsSome(list.logsData)
     /\ Val(list.logsData).total > 0
     /\ Val(list.logsData).req.gen = liveGen
     /\ IsNum(list.pageSize) /\ Val(list.pageSize) >= 1)
    => /\ IsNum(list.page)
       /\ 0 <= Val(list.page)
       /\ Val(list.page) <= Val(TotalPages(list)) - 1

(***************************************************************************)
(* Claims about the interval timers, checked under SpecTimers.             *)
(***************************************************************************)

\* C27: LogsDashboard and the mounted LogList have at most one active
\* auto-refresh timer each; no timer is active while the refresh interval is
\* 0; an active timer's period is the selected refresh interval; and no
\* timer of an unmounted LogList is still active.
C27_OneTimerOfSelectedPeriod ==
    loaded =>
        /\ Cardinality({i \in dash.intervals : i.owner = "dashboard"}) <= 1
        /\ Cardinality({i \in dash.intervals : i.owner = "list"}) <= 1
        /\ \A i \in dash.intervals :
              /\ dash.refreshIntervalMs > 0
              /\ i.period = dash.refreshIntervalMs
              /\ i.owner = "list" => i.instance = dash.manualRefreshTrigger

\* after a refresh remounted LogList with the interval at 30 s, the
\* dashboard and the new LogList each run one timer of 30 s
C27_Witness ==
    /\ loaded
    /\ dash.manualRefreshTrigger = 2
    /\ dash.refreshIntervalMs = 30000
    /\ dash.intervals = {[owner |-> "dashboard", instance |-> 0, period |-> 30000],
                         [owner |-> "list", instance |-> 2, period |-> 30000]}

(***************************************************************************)
(* Claims about the filters of a request, checked under SpecParent.        *)
(***************************************************************************)

\* C23: in every request of LogList providerId is the parent's
\* providerFilter when that is not empty and the selected provider
\* otherwise, model is the parent's modelFilter when not empty and the
\* selected model otherwise, providerType is the selected protocol, and
\* each field is absent exactly when that value is the empty string.
C23_EffectiveFilters ==
    (IsSome(probe) /\ Val(probe).kind = "sent") =>
        LET props == Val(probe).props
            l == Val(probe).list
            req == Val(Val(probe).request)
            provider == IF props.providerFilter # "" THEN props.providerFilter
                        ELSE l.selectedProvider
            model == IF props.modelFilter # "" THEN props.modelFilter
                     ELSE l.selectedModel
        IN  /\ req.providerId = (IF provider = "" THEN None ELSE Some(provider))
            /\ req.model = (IF model = "" THEN None ELSE Some(model))
            /\ req.providerType = (IF l.selectedProtocol = "" THEN None
                                   ELSE Some(l.selectedProtocol))

\* the parent's provider wins over another selected provider, the selected
\* model is used for want of a parent's, and no protocol is selected
C23_Witness ==
    /\ IsSome(probe) /\ Val(probe).kind = "sent"
    /\ Val(probe).props.providerFilter = "p1"
    /\ Val(probe).list.selectedProvider = "p2"
    /\ Val(probe).props.modelFilter = ""
    /\ Val(probe).list.selectedModel = "m1"
    /\ Val(probe).list.selectedProtocol = ""
    /\ Val(Val(probe).request).providerId = Some("p1")
    /\ Val(Val(probe).request).model = Some("m1")
    /\ Val(Val(probe).request).providerType = None

(***************************************************************************)
(* Claims about the detail lookup, checked under SpecLookup.               *)
(***************************************************************************)

\* C12: once the lookup of the opened request has settled, LogDetail shows
\* its not-found state exactly when getRequestDetail returned the explicit
\* absent result; a failed lookup is not shown as not-found.
C12_NotFoundExactlyWhenAbsent ==
    (IsSome(list.selectedRequestId) /\ IsSome(detailQuery)
     /\ Val(detailQuery).status # "pending")
        => (LogDetailView(Val(detailQuery)) = "notFound"
            <=> Val(detailQuery).outcome = "absent")

(***************************************************************************)
(* Claims about the backend's listing, checked under SpecPages.            *)
(***************************************************************************)

WithinRounding(cell, num, den) ==
    LET diff == cell.scaled * den - num * Pow10(cell.digits)
    IN  2 * (IF diff < 0 THEN -diff ELSE diff) <= den

\* C7: a record is success iff 200 <= statusCode < 300, and the list-row
\* badge and the detail badge put every record in the same class.
C7_StatusClassUniform ==
    (IsSome(rowCells) /\ IsSome(detailCells)) =>
        /\ Val(rowCells).statusClass = Val(detailCells).statusClass
        /\ (Val(detailCells).statusClass = "success")
               <=> (shownLog.statusCode >= 200 /\ shownLog.statusCode < 300)
        /\ (Val(rowCells).statusClass = "success")
               <=> (shownLog.statusCode >= 200 /\ shownLog.statusCode < 300)

\* C7 witness: the detail of a record with statusCode 300 is open and is
\* not classed success, as its row is not.
C7_Witness ==
    /\ IsSome(rowCells) /\ IsSome(detailCells)
    /\ shownLog.statusCode = 300
    /\ Val(detailCells).statusClass = "other"
    /\ Val(rowCells).statusClass = "other"

\* the time term of the claimed tokens-per-second formula
ClaimedTpsTermMs(log) ==
    IF log.isStreaming THEN log.latencyMs - Val(log.firstTokenMs) ELSE log.latencyMs

\* what C8 says a TPS cell shows for log
TpsCellAsClaimed(cell, log) ==
    IF log.outputTokens = 0 \/ ClaimedTpsTermMs(log) <= 0
    THEN cell = None
    ELSE IsSome(cell) /\ WithinRounding(Val(cell), log.outputTokens * 1000, ClaimedTpsTermMs(log))

C9_TpotAsClaimed ==
    (IsSome(detailCells) /\ (shownLog.isStreaming => IsSome(shownLog.firstTokenMs))) =>
        LET cell == Val(detailCells).tpot
        IN  IF \/ ~shownLog.isStreaming
               \/ shownLog.outputTokens = 0
               \/ shownLog.latencyMs - Val(shownLog.firstTokenMs) <= 0
            THEN cell = None
            ELSE /\ IsSome(cell)
                 /\ WithinRounding(Val(cell),
                                   shownLog.latencyMs - Val(shownLog.firstTokenMs),
                                   shownLog.outputTokens)

\* the cache-read count of the claimed formula (a missing count reads as 0)
ClaimedCacheRead(log) ==
    IF IsSome(log.cacheReadTokens) THEN Val(log.cacheReadTokens) ELSE 0

\* C10: the cache hit rate shown in the detail view is
\* cacheReadTokens / (inputTokens + outputTokens + cacheReadTokens) * 100,
\* absent exactly when that denominator is zero; a rate of 0 over a non-zero
\* denominator is shown as a value.
C10_CacheHitRate ==
    IsSome(detailCells) =>
        LET cell == Val(detailCells).cacheHitRate
            den  == shownLog.inputTokens + shownLog.outputTokens + ClaimedCacheRead(shownLog)
        IN  /\ (cell = None) <=> (den = 0)
            /\ den > 0 => /\ Val(cell).digits = 1
                          /\ WithinRounding(Val(cell), ClaimedCacheRead(shownLog) * 100, den)

\* C10 witness: a record with no cache reads and a non-zero denominator is
\* open in the detail view, which shows the value 0.0.
C10_Witness ==
    /\ IsSome(detailCells)
    /\ ClaimedCacheRead(shownLog) = 0
    /\ shownLog.inputTokens + shownLog.outputTokens > 0
    /\ IsSome(Val(detailCells).cacheHitRate)
    /\ Val(Val(detailCells).cacheHitRate).scaled = 0

=============================================================================
